---- MODULE Spec2Model ----
(***************************************************************************)
(* Dropshipping order routing, connector registry and tracking of the     *)
(* HypeTotal backend, as a state machine.                                 *)
(*                                                                         *)
(*   OrderRoutingService  src/src/services/order_routing_service.py        *)
(*   TrackingService      src/src/services/tracking_service.py             *)
(*   ConnectorManager     src/src/models/connector_manager.py              *)
(*   BaseConnector        src/src/models/connector_base.py                 *)
(*   SyncService          src/src/services/sync_service.py                 *)
(*   customer views       src/api/customer_views.py, src/api/models.py     *)
(*   live connectors      src/src/models/cj_dropshipping_connector.py,     *)
(*                        src/src/models/spocket_connector.py              *)
(***************************************************************************)
EXTENDS Integers, Sequences, FiniteSets, TLC

VARIABLES
    orders,             \* Order table: id -> [items, status, is_dropshipping_order]
    suppliers,          \* Supplier table: id -> [name, shipping_cost, shipping_time_*]
    ds_orders,          \* DropshippingOrder table, rows in insertion order (id = index)
    connectors,         \* ConnectorManager.connectors: name -> connector instance
    active_connectors,  \* ConnectorManager.active_connectors: list of names
    supplier_products,  \* SupplierProduct table, rows in insertion order
    products,           \* Product table (catalog), rows in insertion order (id = index)
    customers,          \* Customer table, rows in insertion order (id = index)
    clock,              \* timezone.now() of the last request
    result              \* what the last call returned or raised

vars == <<orders, suppliers, ds_orders, connectors, active_connectors,
          supplier_products, products, customers, clock, result>>

None == "None"
NoTracking == <<>>      \* a tracking number that is None: no characters

(***************************************************************************)
(* Bounds of the model.                                                    *)
(***************************************************************************)
NumSuppliers == 3       \* supplier rows 1..NumSuppliers
MaxItems == 3           \* items of an order
MaxSubOrders == 3       \* route_order is explored while fewer rows exist
MaxActive == 3          \* length of the registry's active list that is explored

SupplierIds == 1..NumSuppliers
OrderIds == {1}          \* the ids that have an Order row
RequestIds == {1, 2}     \* the ids a caller passes: 2 has no row

BoundedSeq(S, n) == UNION {[1..k -> S] : k \in 0..n}

SeqSum(s) ==
    LET RECURSIVE Sum(_)
        Sum(i) == IF i = 0 THEN 0 ELSE s[i] + Sum(i - 1)
    IN Sum(Len(s))

SeqMax(s) ==
    LET RECURSIVE Mx(_)
        Mx(i) == IF i = 1 THEN s[1] ELSE IF s[i] > Mx(i - 1) THEN s[i] ELSE Mx(i - 1)
    IN Mx(Len(s))

(* no sort at all: the list as it was built *)
NoSort(seq, keys) == seq

(* an ascending sort that is not stable: equal keys come out in reverse order *)
UnstableSort(seq, keys) ==
    LET Insert(sorted, p) ==
            LET k == Cardinality({i \in 1..Len(sorted) : sorted[i][1] < p[1]})
            IN SubSeq(sorted, 1, k) \o <<p>> \o SubSeq(sorted, k + 1, Len(sorted))
        RECURSIVE Sorted(_)
        Sorted(n) == IF n = 0 THEN <<>>
                     ELSE Insert(Sorted(n - 1), <<keys[n], seq[n]>>)
        RECURSIVE Second(_)
        Second(ps) == IF ps = <<>> THEN <<>> ELSE <<Head(ps)[2]>> \o Second(Tail(ps))
    IN Second(Sorted(Len(seq)))

(* list.sort(key=...) and sorted(...): stable, ascending by key. keys[i] is  *)
(* the key of seq[i].                                                        *)
StableSort(seq, keys) ==
    LET Insert(sorted, p) ==
            LET k == Cardinality({i \in 1..Len(sorted) : sorted[i][1] <= p[1]})
            IN SubSeq(sorted, 1, k) \o <<p>> \o SubSeq(sorted, k + 1, Len(sorted))
        RECURSIVE Sorted(_)
        Sorted(n) == IF n = 0 THEN <<>>
                     ELSE Insert(Sorted(n - 1), <<keys[n], seq[n]>>)
        RECURSIVE Second(_)
        Second(ps) == IF ps = <<>> THEN <<>> ELSE <<Head(ps)[2]>> \o Second(Tail(ps))
    IN Second(Sorted(Len(seq)))

(***************************************************************************)
(* Rows.                                                                   *)
(***************************************************************************)
\* An OrderItem with its Product: price and quantity captured on the item,
\* is_dropshipping and supplier_id (0: none) read from the product.
Item(drop, sid, price, qty) ==
    [is_dropshipping |-> drop, supplier_id |-> sid, price |-> price, quantity |-> qty]

\* A Supplier row. estimated days are kept in half-days, so that
\* (min_days + max_days) / 2 stays an integer.
SupplierRow(cost, mn, mx, api) ==
    [shipping_cost |-> cost, shipping_time_min_days |-> mn,
     shipping_time_max_days |-> mx, tracking_api_endpoint |-> api]

(***************************************************************************)
(* OrderRoutingService._analyze_order_items                                *)
(***************************************************************************)
IsDropshippingItem(item) == item.is_dropshipping /\ item.supplier_id # 0

\* one pass of the loop over order.items: suppliers_involved is a dict, kept
\* here as the sequence of its values in insertion order.
AddToGroups(groups, item) ==
    LET sid == item.supplier_id
        value == item.price * item.quantity
    IN IF \E i \in 1..Len(groups) : groups[i].supplier_id = sid
       THEN [i \in 1..Len(groups) |->
                IF groups[i].supplier_id = sid
                THEN [groups[i] EXCEPT !.items = Append(@, item),
                                       !.total_value = @ + value,
                                       !.total_quantity = @ + item.quantity]
                ELSE groups[i]]
       ELSE Append(groups, [supplier_id |-> sid, items |-> <<item>>,
                            total_value |-> value,
                            total_quantity |-> item.quantity,
                            estimated_shipping_days |-> 0])

_analyze_order_items(order) ==
    LET items == order.items
        RECURSIVE Groups(_)
        Groups(n) ==
            IF n = 0 THEN <<>>
            ELSE IF IsDropshippingItem(items[n])
                 THEN AddToGroups(Groups(n - 1), items[n])
                 ELSE Groups(n - 1)
        grouped == Groups(Len(items))
        \* second loop: avg_shipping_days = (min + max) / 2, in half-days
        timed == [i \in 1..Len(grouped) |->
                    [grouped[i] EXCEPT !.estimated_shipping_days =
                        suppliers[grouped[i].supplier_id].shipping_time_min_days
                      + suppliers[grouped[i].supplier_id].shipping_time_max_days]]
    IN [total_items |-> Len(items),
        dropshipping_items |-> Cardinality({i \in 1..Len(items) : IsDropshippingItem(items[i])}),
        regular_items |-> Cardinality({i \in 1..Len(items) : ~IsDropshippingItem(items[i])}),
        suppliers_involved |-> timed,
        total_value |-> SeqSum([i \in 1..Len(items) |-> items[i].price * items[i].quantity])]

(***************************************************************************)
(* OrderRoutingService._determine_routing_strategy                         *)
(***************************************************************************)
HighValue == 1000
LowValue == 200

StrategyMutant(analysis) ==
    LET num_suppliers == Len(analysis.suppliers_involved)
        total_value == analysis.total_value
    IN IF num_suppliers = 0 THEN "NO_DROPSHIPPING"
       ELSE IF num_suppliers = 1 THEN "SINGLE_SUPPLIER"
       ELSE IF total_value >= HighValue THEN "MULTI_SUPPLIER_SPEED"
       ELSE IF total_value < LowValue THEN "MULTI_SUPPLIER_COST"
       ELSE "HYBRID"

_determine_routing_strategy(analysis) ==
    LET num_suppliers == Len(analysis.suppliers_involved)
        total_value == analysis.total_value
    IN IF num_suppliers = 0 THEN "NO_DROPSHIPPING"
       ELSE IF num_suppliers = 1 THEN "SINGLE_SUPPLIER"
       ELSE IF total_value > HighValue THEN "MULTI_SUPPLIER_SPEED"
       ELSE IF total_value < LowValue THEN "MULTI_SUPPLIER_COST"
       ELSE "HYBRID"

(***************************************************************************)
(* OrderRoutingService._route_by_cost, _route_by_speed, _route_hybrid,     *)
(* _execute_routing_strategy                                               *)
(***************************************************************************)
\* routing by cost as a selection: only the cheapest supplier group is kept
RouteCheapestOnly(analysis) ==
    LET g == analysis.suppliers_involved
    IN SubSeq(StableSort(g, [i \in 1..Len(g) |-> suppliers[g[i].supplier_id].shipping_cost]),
              1, 1)

_route_by_cost(analysis) ==
    LET g == analysis.suppliers_involved
    IN StableSort(g, [i \in 1..Len(g) |-> suppliers[g[i].supplier_id].shipping_cost])

\* routing by speed that orders the groups by shipping cost
RouteSpeedByCost(analysis) ==
    LET g == analysis.suppliers_involved
    IN StableSort(g, [i \in 1..Len(g) |-> suppliers[g[i].supplier_id].shipping_cost])

_route_by_speed(analysis) ==
    LET g == analysis.suppliers_involved
    IN StableSort(g, [i \in 1..Len(g) |-> g[i].estimated_shipping_days])

\* hybrid_score = 0.6 * cost / max_cost + 0.4 * days / max_time, a term being 0
\* when its maximum is 0. Kept exact as num / den with
\* den = 10 * max_cost' * max_time' (a maximum of 0 replaced by 1); the
\* weights are in tenths.
HybridWeightCost == 6
HybridWeightTime == 4

\* the hybrid routing with the two weights exchanged: 40% cost, 60% time
RouteHybridSwapped(analysis) ==
    LET g == analysis.suppliers_involved
        n == Len(g)
        cost(i) == suppliers[g[i].supplier_id].shipping_cost
        days(i) == g[i].estimated_shipping_days
        max_cost == SeqMax([i \in 1..n |-> cost(i)])
        max_time == SeqMax([i \in 1..n |-> days(i)])
        dc == IF max_cost > 0 THEN max_cost ELSE 1
        dt == IF max_time > 0 THEN max_time ELSE 1
        num(i) == HybridWeightTime * (IF max_cost > 0 THEN cost(i) ELSE 0) * dt
                + HybridWeightCost * (IF max_time > 0 THEN days(i) ELSE 0) * dc
        scored == [i \in 1..n |->
                    [supplier_id |-> g[i].supplier_id, items |-> g[i].items,
                     total_value |-> g[i].total_value,
                     total_quantity |-> g[i].total_quantity,
                     estimated_shipping_days |-> g[i].estimated_shipping_days,
                     hybrid_score |-> [num |-> num(i), den |-> 10 * dc * dt]]]
    IN StableSort(scored, [i \in 1..n |-> num(i)])

_route_hybrid(analysis) ==
    LET g == analysis.suppliers_involved
        n == Len(g)
        cost(i) == suppliers[g[i].supplier_id].shipping_cost
        days(i) == g[i].estimated_shipping_days
        max_cost == SeqMax([i \in 1..n |-> cost(i)])
        max_time == SeqMax([i \in 1..n |-> days(i)])
        dc == IF max_cost > 0 THEN max_cost ELSE 1
        dt == IF max_time > 0 THEN max_time ELSE 1
        num(i) == HybridWeightCost * (IF max_cost > 0 THEN cost(i) ELSE 0) * dt
                + HybridWeightTime * (IF max_time > 0 THEN days(i) ELSE 0) * dc
        scored == [i \in 1..n |->
                    [supplier_id |-> g[i].supplier_id, items |-> g[i].items,
                     total_value |-> g[i].total_value,
                     total_quantity |-> g[i].total_quantity,
                     estimated_shipping_days |-> g[i].estimated_shipping_days,
                     hybrid_score |-> [num |-> num(i), den |-> 10 * dc * dt]]]
    IN StableSort(scored, [i \in 1..n |-> num(i)])

_execute_routing_strategy(analysis, strategy) ==
    IF strategy = "NO_DROPSHIPPING" THEN <<>>
    ELSE IF strategy = "SINGLE_SUPPLIER" THEN <<analysis.suppliers_involved[1]>>
    ELSE IF strategy = "MULTI_SUPPLIER_COST" THEN _route_by_cost(analysis)
    ELSE IF strategy = "MULTI_SUPPLIER_SPEED" THEN _route_by_speed(analysis)
    ELSE IF strategy = "HYBRID" THEN _route_hybrid(analysis)
    ELSE analysis.suppliers_involved

(***************************************************************************)
(* OrderRoutingService._simulate_supplier_order and                        *)
(* _create_dropshipping_orders                                             *)
(***************************************************************************)
\* random.randint(min_days, max_days) raises ValueError on an empty range;
\* nothing in _simulate_supplier_order or its caller catches it.
SimulateRaises(sid) ==
    suppliers[sid].shipping_time_min_days > suppliers[sid].shipping_time_max_days

\* The accepted response; the random digits of supplier_order_id and the
\* random day estimates are left out, the id keeps its supplier prefix.
_simulate_supplier_order(sid, items) ==
    [supplier_order_id |-> <<"SUP", sid>>,
     status |-> "accepted",
     total_items |-> Len(items),
     total_amount |-> SeqSum([i \in 1..Len(items) |-> items[i].price * items[i].quantity]),
     shipping_cost |-> suppliers[sid].shipping_cost]

DsRow(id, order_id, sid, response, n_items) ==
    [id |-> id, order_id |-> order_id, supplier_id |-> sid,
     supplier_order_id |-> response.supplier_order_id,
     supplier_status |-> "pending",
     tracking_number |-> NoTracking,
     carrier |-> None,
     supplier_response |-> response,
     notes |-> n_items]

\* The loop over routing_result. It stops at the first group whose simulated
\* dispatch raises: raised_at is that group's index, 0 when none raises.
_create_dropshipping_orders(order_id, routing_result, first_id) ==
    LET n == Len(routing_result)
        bad == {i \in 1..n : SimulateRaises(routing_result[i].supplier_id)}
        raised_at == IF bad = {} THEN 0 ELSE CHOOSE i \in bad : \A j \in bad : i <= j
        done == IF raised_at = 0 THEN n ELSE raised_at - 1
    IN [raised_at |-> raised_at,
        rows |-> [i \in 1..done |->
                    DsRow(first_id + i - 1, order_id, routing_result[i].supplier_id,
                          _simulate_supplier_order(routing_result[i].supplier_id,
                                                   routing_result[i].items),
                          Len(routing_result[i].items))]]

SupplierIdsOf(groups) == [i \in 1..Len(groups) |-> groups[i].supplier_id]

(***************************************************************************)
(* OrderRoutingService.route_order                                         *)
(***************************************************************************)
\* route_order without db.session.rollback(): the rows added to the session
\* before a dispatch raised stay
RouteOrderNoRollback(order_id) ==
    /\ Len(ds_orders) < MaxSubOrders
    /\ order_id \in DOMAIN orders
    /\ LET analysis == _analyze_order_items(orders[order_id])
           strategy == _determine_routing_strategy(analysis)
           final_routing == _execute_routing_strategy(analysis, strategy)
           created == _create_dropshipping_orders(order_id, final_routing,
                                                  Len(ds_orders) + 1)
       IN /\ ds_orders' = ds_orders \o created.rows
          /\ orders' = IF created.raised_at # 0 THEN orders
                       ELSE [orders EXCEPT ![order_id].is_dropshipping_order = TRUE,
                                           ![order_id].status = "processing"]
          /\ result' = [op |-> "route_order", order_id |-> order_id,
                        raised |-> created.raised_at # 0,
                        error |-> IF created.raised_at # 0 THEN "dispatch" ELSE None,
                        order_found |-> TRUE,
                        total_items |-> analysis.total_items,
                        suppliers_involved |-> SupplierIdsOf(analysis.suppliers_involved),
                        dispatch_raised |-> IF created.raised_at # 0
                                            THEN final_routing[created.raised_at].supplier_id
                                            ELSE 0]
    /\ UNCHANGED <<suppliers, connectors, active_connectors, supplier_products, products,
                   customers, clock>>

route_order(order_id) ==
    /\ Len(ds_orders) < MaxSubOrders
    /\ IF order_id \notin DOMAIN orders
       THEN \* Order.query.get gives None: raise, rollback
            /\ result' = [op |-> "route_order", order_id |-> order_id,
                          raised |-> TRUE, error |-> "not_found",
                          order_found |-> FALSE, total_items |-> 0,
                          suppliers_involved |-> <<>>, dispatch_raised |-> 0]
            /\ UNCHANGED <<orders, ds_orders>>
       ELSE LET order == orders[order_id]
                analysis == _analyze_order_items(order)
                strategy == _determine_routing_strategy(analysis)
                final_routing == _execute_routing_strategy(analysis, strategy)
                created == _create_dropshipping_orders(order_id, final_routing,
                                                       Len(ds_orders) + 1)
            IN IF created.raised_at # 0
               THEN \* the exception leaves route_order: db.session.rollback()
                    /\ result' = [op |-> "route_order", order_id |-> order_id,
                                  raised |-> TRUE, error |-> "dispatch",
                                  order_found |-> TRUE,
                                  total_items |-> analysis.total_items,
                                  suppliers_involved |-> SupplierIdsOf(analysis.suppliers_involved),
                                  dispatch_raised |-> final_routing[created.raised_at].supplier_id]
                    /\ UNCHANGED <<orders, ds_orders>>
               ELSE /\ ds_orders' = ds_orders \o created.rows
                    /\ orders' = [orders EXCEPT ![order_id].is_dropshipping_order = TRUE,
                                                ![order_id].status = "processing"]
                    /\ result' = [op |-> "route_order", order_id |-> order_id,
                                  raised |-> FALSE, error |-> None,
                                  order_found |-> TRUE,
                                  total_items |-> analysis.total_items,
                                  suppliers_involved |-> SupplierIdsOf(analysis.suppliers_involved),
                                  dispatch_raised |-> 0,
                                  routing_strategy |-> strategy,
                                  supplier_orders |-> final_routing,
                                  dropshipping_orders |-> [i \in 1..Len(created.rows) |-> created.rows[i].id],
                                  total_suppliers |-> Len(final_routing)]
    /\ UNCHANGED <<suppliers, connectors, active_connectors, supplier_products, products,
                   customers, clock>>

(***************************************************************************)
(* OrderRoutingService._calculate_recommendation_score, get_routing_options *)
(***************************************************************************)
Min2(a, b) == IF a < b THEN a ELSE b
Max2(a, b) == IF a > b THEN a ELSE b

_calculate_recommendation_score(strategy, routing_result, analysis) ==
    LET base == 50
        bonus == IF strategy = "SINGLE_SUPPLIER" THEN 20
                 ELSE IF strategy = "MULTI_SUPPLIER_SPEED" THEN 15
                 ELSE IF strategy = "MULTI_SUPPLIER_COST" THEN 10
                 ELSE IF strategy = "HYBRID" THEN 25
                 ELSE 0
        penalty == IF Len(routing_result) > 3 THEN 10 ELSE 0
        total_value == analysis.total_value
        value_bonus ==
            IF total_value > HighValue
            THEN IF strategy \in {"MULTI_SUPPLIER_SPEED", "HYBRID"} THEN 10 ELSE 0
            ELSE IF total_value < LowValue
                 THEN IF strategy \in {"MULTI_SUPPLIER_COST", "SINGLE_SUPPLIER"} THEN 10 ELSE 0
                 ELSE 0
    IN Max2(0, Min2(100, base + bonus - penalty + value_bonus))

Strategies == <<"SINGLE_SUPPLIER", "MULTI_SUPPLIER_COST", "MULTI_SUPPLIER_SPEED", "HYBRID">>

\* get_routing_options as it would be if it executed the routing it describes
RoutingOptionsExecute(order_id) ==
    /\ order_id \in DOMAIN orders
    /\ Len(ds_orders) < MaxSubOrders
    /\ LET analysis == _analyze_order_items(orders[order_id])
           created == _create_dropshipping_orders(order_id, analysis.suppliers_involved,
                                                  Len(ds_orders) + 1)
       IN /\ created.raised_at = 0
          /\ ds_orders' = ds_orders \o created.rows
          /\ orders' = [orders EXCEPT ![order_id].status = "processing"]
          /\ result' = [op |-> "get_routing_options", order_id |-> order_id,
                        raised |-> FALSE, error |-> None, order_found |-> TRUE,
                        total_items |-> analysis.total_items,
                        has_dropshipping_items |-> FALSE]
    /\ UNCHANGED <<suppliers, connectors, active_connectors, supplier_products, products,
                   customers, clock>>

get_routing_options(order_id) ==
    /\ IF order_id \notin DOMAIN orders
       THEN result' = [op |-> "get_routing_options", order_id |-> order_id,
                       raised |-> TRUE, error |-> "not_found",
                       order_found |-> FALSE, total_items |-> 0]
       ELSE LET analysis == _analyze_order_items(orders[order_id])
                n_sup == Len(analysis.suppliers_involved)
                applicable == SelectSeq(Strategies,
                                  LAMBDA st : ~(st = "SINGLE_SUPPLIER" /\ n_sup > 1))
                option(st) ==
                    LET routing_result == _execute_routing_strategy(analysis, st)
                    IN [strategy_name |-> st,
                        suppliers_count |-> Len(routing_result),
                        suppliers |-> SupplierIdsOf(routing_result),
                        total_shipping_cost |->
                            SeqSum([i \in 1..Len(routing_result) |->
                                suppliers[routing_result[i].supplier_id].shipping_cost]),
                        recommendation_score |->
                            _calculate_recommendation_score(st, routing_result, analysis)]
                options ==
                    LET RECURSIVE Build(_)
                        Build(k) == IF k = 0 THEN <<>>
                                    ELSE Append(Build(k - 1), option(applicable[k]))
                    IN Build(Len(applicable))
                \* sorted(..., reverse=True) keeps equal scores in insertion order
                sorted_options == StableSort(options,
                                      [i \in 1..Len(options) |-> 0 - options[i].recommendation_score])
            IN IF n_sup = 0
               THEN result' = [op |-> "get_routing_options", order_id |-> order_id,
                               raised |-> FALSE, error |-> None,
                               order_found |-> TRUE,
                               total_items |-> analysis.total_items,
                               has_dropshipping_items |-> FALSE]
               ELSE result' = [op |-> "get_routing_options", order_id |-> order_id,
                               raised |-> FALSE, error |-> None,
                               order_found |-> TRUE,
                               total_items |-> analysis.total_items,
                               has_dropshipping_items |-> TRUE,
                               routing_options |-> sorted_options,
                               recommended_strategy |-> sorted_options[1].strategy_name]
    /\ UNCHANGED <<orders, suppliers, ds_orders, connectors, active_connectors, supplier_products, products,
                   customers, clock>>

(***************************************************************************)
(* TrackingService.CARRIER_PATTERNS and _identify_carrier                  *)
(* A tracking number is the sequence of its characters. A pattern          *)
(* ^seg1 seg2 ...$ is the sequence of its segments [cls, lo, hi]: between   *)
(* lo and hi characters of class cls.                                      *)
(***************************************************************************)
Upper == {"A", "B", "C", "D", "E", "G", "L", "M", "T", "X", "Y", "Z"}
Digit == {"0", "1", "2", "3", "4", "5", "6", "7", "8", "9"}

InClass(ch, cls) ==
    IF cls = "upper" THEN ch \in Upper
    ELSE IF cls = "digit" THEN ch \in Digit
    ELSE IF cls = "alnum" THEN ch \in Upper \cup Digit
    ELSE ch = cls

Seg(cls, lo, hi) == [cls |-> cls, lo |-> lo, hi |-> hi]

CARRIER_PATTERNS ==
    << [carrier |-> "correios",
        pattern |-> <<Seg("upper", 2, 2), Seg("digit", 9, 9), Seg("upper", 2, 2)>>],
       [carrier |-> "jadlog", pattern |-> <<Seg("digit", 14, 14)>>],
       [carrier |-> "total_express",
        pattern |-> <<Seg("T", 1, 1), Seg("E", 1, 1), Seg("digit", 10, 10)>>],
       [carrier |-> "loggi",
        pattern |-> <<Seg("L", 1, 1), Seg("G", 1, 1), Seg("digit", 8, 8)>>],
       [carrier |-> "mercado_envios",
        pattern |-> <<Seg("M", 1, 1), Seg("E", 1, 1), Seg("digit", 12, 12)>>],
       [carrier |-> "ups",
        pattern |-> <<Seg("1", 1, 1), Seg("Z", 1, 1), Seg("alnum", 16, 16)>>],
       [carrier |-> "fedex", pattern |-> <<Seg("digit", 12, 14)>>],
       [carrier |-> "dhl", pattern |-> <<Seg("digit", 10, 11)>> ] >>

\* re.match(pattern, tracking_number) for an anchored pattern
ReMatch(pattern, tn) ==
    LET RECURSIVE M(_, _)
        M(i, k) ==
            IF k > Len(pattern) THEN i = Len(tn) + 1
            ELSE \E c \in pattern[k].lo..pattern[k].hi :
                    /\ i + c - 1 <= Len(tn)
                    /\ \A j \in i..(i + c - 1) : InClass(tn[j], pattern[k].cls)
                    /\ M(i + c, k + 1)
    IN M(1, 1)

\* the carrier of the last matching pattern of the table
IdentifyLastMatch(tracking_number) ==
    LET hits == {k \in 1..Len(CARRIER_PATTERNS) :
                    ReMatch(CARRIER_PATTERNS[k].pattern, tracking_number)}
    IN IF hits = {} THEN "unknown"
       ELSE CARRIER_PATTERNS[CHOOSE k \in hits : \A h \in hits : k >= h].carrier

_identify_carrier(tracking_number) ==
    LET hits == {k \in 1..Len(CARRIER_PATTERNS) :
                    ReMatch(CARRIER_PATTERNS[k].pattern, tracking_number)}
    IN IF hits = {} THEN "unknown"
       ELSE CARRIER_PATTERNS[CHOOSE k \in hits : \A h \in hits : k <= h].carrier

(***************************************************************************)
(* TrackingService.update_tracking_number                                  *)
(***************************************************************************)
\* a tracking number marks every sub-order shipped, whatever its status
StatusAlwaysShipped(supplier_status) == "shipped"

\* "Atualizar status se ainda estiver pendente"
StatusAfterTracking(supplier_status) ==
    IF supplier_status \in {"pending", "confirmed"} THEN "shipped" ELSE supplier_status

update_tracking_number(ds_order_id, tracking_number, carrier) ==
    /\ IF ds_order_id \notin 1..Len(ds_orders)
       THEN /\ result' = [op |-> "update_tracking_number", raised |-> TRUE,
                          error |-> "not_found"]
            /\ UNCHANGED <<orders, ds_orders>>
       ELSE LET ds_order == ds_orders[ds_order_id]
                found == IF carrier = None THEN _identify_carrier(tracking_number)
                         ELSE carrier
                status == StatusAfterTracking(ds_order.supplier_status)
            IN /\ ds_orders' = [ds_orders EXCEPT
                                    ![ds_order_id] = [ds_order EXCEPT
                                        !.tracking_number = tracking_number,
                                        !.carrier = found,
                                        !.supplier_status = status]]
               /\ orders' = [orders EXCEPT ![ds_order.order_id].tracking_number =
                                IF @ = NoTracking THEN tracking_number ELSE @]
               /\ result' = [op |-> "update_tracking_number", raised |-> FALSE,
                             error |-> None,
                             dropshipping_order_id |-> ds_order_id,
                             tracking_number |-> tracking_number,
                             carrier |-> found, status |-> status]
    /\ UNCHANGED <<suppliers, connectors, active_connectors, supplier_products, products,
                   customers, clock>>

(***************************************************************************)
(* TrackingService._track_via_supplier_api, _track_dropshipping_order,     *)
(* track_order                                                             *)
(* api is what the supplier's tracking endpoint does for one request:      *)
(* [kind |-> "ok", status |-> s] is a 200 whose JSON has status s          *)
(* ("absent": no status key), "not_object" a 200 whose JSON is no object   *)
(* (data.get raises AttributeError), "http_error" any other status code,   *)
(* "request_exception" a requests.RequestException.                        *)
(***************************************************************************)
_parse_supplier_tracking_response(data) ==
    IF data.status = "absent" THEN "unknown" ELSE data.status

_simulate_tracking_fallback == "shipped"

RowsOf(order_id) ==
    SelectSeq(ds_orders, LAMBDA r : r.order_id = order_id)

NoApiCall == [kind |-> "none", status |-> "absent"]

\* the rows of the order whose tracking asks the supplier's API
ApiRows(order_id) ==
    LET rows == RowsOf(order_id)
    IN {i \in 1..Len(rows) : /\ rows[i].tracking_number # NoTracking
                              /\ suppliers[rows[i].supplier_id].tracking_api_endpoint}

\* "raises": an exception other than RequestException leaves the function
_track_via_supplier_api(api) ==
    IF api.kind = "ok" THEN _parse_supplier_tracking_response(api)
    ELSE IF api.kind = "not_object" THEN "raises"
    ELSE _simulate_tracking_fallback

\* the 'status' of the tracking_info of one sub-order; the handler of
\* _track_dropshipping_order turns any exception into status 'error'
_track_dropshipping_order(ds_order, api) ==
    IF ds_order.tracking_number # NoTracking
       /\ suppliers[ds_order.supplier_id].tracking_api_endpoint
    THEN LET api_status == _track_via_supplier_api(api)
         IN IF api_status = "raises" THEN "error" ELSE api_status
    ELSE ds_order.supplier_status

\* one pass of the loop that determines the overall status
NextOverall(overall_status, status) ==
    IF status = "delivered"
    THEN IF overall_status # "shipped" THEN "delivered" ELSE overall_status
    ELSE IF status = "shipped" THEN "shipped"
    ELSE IF status = "confirmed" /\ overall_status = "pending" THEN "confirmed"
    ELSE overall_status

OverallStatus(statuses) ==
    LET RECURSIVE Fold(_)
        Fold(n) == IF n = 0 THEN "pending" ELSE NextOverall(Fold(n - 1), statuses[n])
    IN Fold(Len(statuses))

track_order(order_id, apis) ==
    /\ IF order_id \notin DOMAIN orders
       THEN /\ result' = [op |-> "track_order", order_id |-> order_id,
                          raised |-> TRUE, error |-> "not_found"]
            /\ UNCHANGED orders
       ELSE LET dropshipping_orders == RowsOf(order_id)
                statuses == [i \in 1..Len(dropshipping_orders) |->
                                _track_dropshipping_order(dropshipping_orders[i],
                                    IF i \in DOMAIN apis THEN apis[i] ELSE NoApiCall)]
                overall_status == OverallStatus(statuses)
            IN IF Len(dropshipping_orders) = 0
               THEN /\ result' = [op |-> "track_order", order_id |-> order_id,
                                  raised |-> FALSE, error |-> None,
                                  is_dropshipping |-> FALSE,
                                  status |-> orders[order_id].status]
                    /\ UNCHANGED orders
               ELSE /\ orders' = [orders EXCEPT ![order_id].status = overall_status]
                    /\ result' = [op |-> "track_order", order_id |-> order_id,
                                  raised |-> FALSE, error |-> None,
                                  is_dropshipping |-> TRUE,
                                  overall_status |-> overall_status,
                                  total_suppliers |-> Len(statuses),
                                  tracking_details |-> statuses]
    /\ UNCHANGED <<suppliers, ds_orders, connectors, active_connectors, supplier_products, products,
                   customers, clock>>

(***************************************************************************)
(* Connectors: BaseConnector and its implementations.                      *)
(* A connector instance is [cls |-> its class]. "BaseConnector" stands for *)
(* any further implementation of the abstract interface, whose methods may *)
(* raise; the classes of the repository catch their own exceptions.        *)
(***************************************************************************)
LiveClasses == {"CJDropshippingConnector", "SpocketConnector"}
DemoClasses == {"DemoCJDropshippingConnector"}
ConnectorClasses == LiveClasses \cup DemoClasses \cup {"BaseConnector"}
Connectors == [cls : ConnectorClasses]
ConnectorNames == {"cj_dropshipping", "spocket"}

max_retries == 3

\* BaseConnector._make_request: net[k] is what attempt k meets, "ok" or
\* "RequestException". sent counts the requests put on the wire.
_make_request(net) ==
    LET ok == {k \in 1..max_retries : net[k] = "ok"}
        first_ok == IF ok = {} THEN 0 ELSE CHOOSE k \in ok : \A h \in ok : k <= h
    IN IF first_ok = 0
       THEN [raised |-> TRUE, sent |-> max_retries]
       ELSE [raised |-> FALSE, sent |-> first_ok]

OrderResponse(success, supplier_order_id, message, error_code) ==
    [success |-> success, supplier_order_id |-> supplier_order_id,
     message |-> message, error_code |-> error_code]

\* create_order of CJDropshippingConnector and of SpocketConnector: one POST
\* through _make_request, then the JSON body decides. body.accepted: the
\* success test of the class holds (result and data / order and success);
\* body.message, body.code: the message and code / error_code keys, None
\* when the key is absent.
live_create_order(net, body) ==
    LET req == _make_request(net)
    IN IF req.raised
       THEN [raised |-> FALSE, sent |-> req.sent,
             response |-> OrderResponse(FALSE, None, "Erro interno", "INTERNAL_ERROR")]
       ELSE IF body.accepted
       THEN [raised |-> FALSE, sent |-> req.sent,
             response |-> OrderResponse(TRUE, "supplier-order", "Pedido criado com sucesso", None)]
       ELSE [raised |-> FALSE, sent |-> req.sent,
             response |-> OrderResponse(FALSE, None,
                             IF body.message = None THEN "Erro desconhecido" ELSE body.message,
                             body.code)]

\* DemoCJDropshippingConnector.create_order: random.random() < 0.95 accepts
demo_create_order(body) ==
    IF body.accepted
    THEN [raised |-> FALSE, sent |-> 0,
          response |-> OrderResponse(TRUE, "supplier-order", "Pedido criado com sucesso (simulado)", None)]
    ELSE [raised |-> FALSE, sent |-> 0,
          response |-> OrderResponse(FALSE, None, "Erro simulado", "DEMO_ERROR")]

\* connector.create_order(order); raised: the implementation lets an
\* exception out
create_order(connector, net, body) ==
    IF connector.cls \in LiveClasses THEN live_create_order(net, body)
    ELSE IF connector.cls \in DemoClasses THEN demo_create_order(body)
    ELSE IF net[1] = "ok"
         THEN [raised |-> FALSE, sent |-> 1,
               response |-> OrderResponse(TRUE, "supplier-order", "ok", None)]
         ELSE [raised |-> TRUE, sent |-> 1,
               response |-> OrderResponse(FALSE, None, "", None)]

\* connector.authenticate(): auth is what the supplier answers, "true",
\* "false" or "exception". Demo connectors always return True, the live
\* classes catch every exception and return False.
authenticate(connector, auth) ==
    IF connector.cls \in DemoClasses THEN "true"
    ELSE IF connector.cls \in LiveClasses
         THEN IF auth = "true" THEN "true" ELSE "false"
         ELSE IF auth = "exception" THEN "raises" ELSE auth

TestConnectionMutant(connector, auth) ==
    authenticate(connector, auth) # "false"

\* BaseConnector.test_connection
test_connection(connector, auth) ==
    LET a == authenticate(connector, auth)
    IN IF a = "raises" THEN FALSE ELSE a = "true"

\* connector.search_products(query): out.exception says whether the search
\* meets an exception, out.products is the list found otherwise
search_products(connector, out) ==
    IF out.exception
    THEN [raised |-> connector.cls = "BaseConnector", products |-> <<>>]
    ELSE [raised |-> FALSE, products |-> out.products]

(***************************************************************************)
(* ConnectorManager                                                        *)
(***************************************************************************)
register_connector(name, connector, auth) ==
    /\ Len(active_connectors) < MaxActive
    /\ IF test_connection(connector, auth)
       THEN /\ connectors' = [n \in DOMAIN connectors \cup {name} |->
                                IF n = name THEN connector ELSE connectors[n]]
            /\ active_connectors' = Append(active_connectors, name)
            /\ result' = [op |-> "register_connector", raised |-> FALSE,
                          name |-> name, connector |-> connector, auth |-> auth,
                          returned |-> TRUE,
                          before |-> <<connectors, active_connectors>>]
       ELSE /\ UNCHANGED <<connectors, active_connectors>>
            /\ result' = [op |-> "register_connector", raised |-> FALSE,
                          name |-> name, connector |-> connector, auth |-> auth,
                          returned |-> FALSE,
                          before |-> <<connectors, active_connectors>>]
    /\ UNCHANGED <<orders, suppliers, ds_orders, supplier_products, products, customers, clock>>

\* list.remove(name): the first occurrence
RemoveFirst(s, x) ==
    LET at == {i \in 1..Len(s) : s[i] = x}
        k == CHOOSE i \in at : \A j \in at : i <= j
    IN IF at = {} THEN s
       ELSE [i \in 1..(Len(s) - 1) |-> IF i < k THEN s[i] ELSE s[i + 1]]

unregister_connector(name) ==
    /\ IF name \in DOMAIN connectors
       THEN /\ connectors' = [n \in DOMAIN connectors \ {name} |-> connectors[n]]
            /\ active_connectors' = RemoveFirst(active_connectors, name)
            /\ result' = [op |-> "unregister_connector", raised |-> FALSE,
                          name |-> name, returned |-> TRUE]
       ELSE /\ UNCHANGED <<connectors, active_connectors>>
            /\ result' = [op |-> "unregister_connector", raised |-> FALSE,
                          name |-> name, returned |-> FALSE]
    /\ UNCHANGED <<orders, suppliers, ds_orders, supplier_products, products, customers, clock>>

\* The loop of search_products_all over the first n names of the active list;
\* outs[i] is what the i-th search meets. results is the dict, queried the
\* names whose search_products was called, in order.
SearchLoopStop(n, outs) ==
    LET RECURSIVE Loop(_)
        Loop(k) ==
            IF k = 0 THEN [results |-> [x \in {} |-> <<>>], queried |-> <<>>, raised |-> FALSE]
            ELSE LET prev == Loop(k - 1)
                     name == active_connectors[k]
                     known == name \in DOMAIN connectors
                     found == IF known THEN search_products(connectors[name], outs[k])
                              ELSE [raised |-> TRUE, products |-> <<>>]
                     entry == IF found.raised THEN <<>> ELSE found.products
                 IN IF prev.raised \/ found.raised
                    THEN [prev EXCEPT !.raised = TRUE]
                    ELSE [results |-> [x \in DOMAIN prev.results \cup {name} |->
                                        IF x = name THEN entry ELSE prev.results[x]],
                          queried |-> IF known THEN Append(prev.queried, name)
                                      ELSE prev.queried,
                          raised |-> FALSE]
    IN Loop(n)

SearchLoop(n, outs) ==
    LET RECURSIVE Loop(_)
        Loop(k) ==
            IF k = 0 THEN [results |-> [x \in {} |-> <<>>], queried |-> <<>>, raised |-> FALSE]
            ELSE LET prev == Loop(k - 1)
                     name == active_connectors[k]
                     \* self.connectors[name]: KeyError inside the try
                     known == name \in DOMAIN connectors
                     found == IF known THEN search_products(connectors[name], outs[k])
                              ELSE [raised |-> TRUE, products |-> <<>>]
                     entry == IF found.raised THEN <<>> ELSE found.products
                 IN [results |-> [x \in DOMAIN prev.results \cup {name} |->
                                    IF x = name THEN entry ELSE prev.results[x]],
                     queried |-> IF known THEN Append(prev.queried, name)
                                 ELSE prev.queried,
                     raised |-> FALSE]
    IN Loop(n)

search_products_all(outs) ==
    /\ LET r == SearchLoop(Len(active_connectors), outs)
       IN result' = [op |-> "search_products_all", raised |-> r.raised,
                     results |-> r.results, queried |-> r.queried, outs |-> outs]
    /\ UNCHANGED <<orders, suppliers, ds_orders, connectors, active_connectors, supplier_products, products,
                   customers, clock>>

create_order_with_supplier(supplier_name, net, body) ==
    /\ IF supplier_name \notin DOMAIN connectors
       THEN result' = [op |-> "create_order_with_supplier", raised |-> FALSE,
                       supplier_name |-> supplier_name, sent |-> 0,
                       cls |-> None, body |-> body,
                       response |-> OrderResponse(FALSE, None,
                                        "Conector nao encontrado", "CONNECTOR_NOT_FOUND")]
       ELSE LET r == create_order(connectors[supplier_name], net, body)
            IN result' = [op |-> "create_order_with_supplier", raised |-> FALSE,
                          supplier_name |-> supplier_name, sent |-> r.sent,
                          cls |-> connectors[supplier_name].cls, body |-> body,
                          response |->
                              IF r.raised
                              THEN OrderResponse(FALSE, None, "Erro ao criar pedido",
                                                 "ORDER_CREATION_FAILED")
                              ELSE r.response]
    /\ UNCHANGED <<orders, suppliers, ds_orders, connectors, active_connectors, supplier_products, products,
                   customers, clock>>

(***************************************************************************)
(* Inputs and specifications.                                              *)
(***************************************************************************)
NewOrder(items) ==
    [items |-> items, status |-> "pending", is_dropshipping_order |-> FALSE,
     tracking_number |-> NoTracking]

GoodSupplier == SupplierRow(10, 2, 4, FALSE)
ApiSupplier == SupplierRow(10, 2, 4, TRUE)
\* min_days above max_days: random.randint(min_days, max_days) raises
BadSupplier == SupplierRow(10, 5, 3, FALSE)

RegularItem == Item(FALSE, 0, 50, 1)

NoResult == [op |-> "none", raised |-> FALSE]

InitWith(itemKinds, supplierRows) ==
    /\ orders \in [OrderIds -> {NewOrder(items) : items \in BoundedSeq(itemKinds, MaxItems)}]
    /\ suppliers \in [SupplierIds -> supplierRows]
    /\ ds_orders = <<>>
    /\ connectors = <<>>
    /\ active_connectors = <<>>
    /\ supplier_products = <<>>
    /\ products = <<>>
    /\ customers = <<>>
    /\ clock = 0
    /\ result = NoResult

\* Routing: orders over every supplier, suppliers that dispatch or raise.
RouteItems ==
    {Item(TRUE, s, p, 1) : s \in SupplierIds, p \in {50, 900}} \cup {RegularItem}

Init == InitWith(RouteItems, {GoodSupplier, BadSupplier})

Next ==
    \E order_id \in RequestIds :
        \/ route_order(order_id)
        \/ get_routing_options(order_id)

Spec == Init /\ [][Next]_vars

\* Strategy selection: order values on both sides of the two thresholds.
StrategyItems ==
    {Item(TRUE, s, p, q) : s \in SupplierIds, p \in {50, 900}, q \in {1, 2}}
        \cup {RegularItem}

InitStrategy == InitWith(StrategyItems, {GoodSupplier})

NextStrategy == \E order_id \in OrderIds : route_order(order_id)

SpecStrategy == InitStrategy /\ [][NextStrategy]_vars

\* Tracking: routed orders whose sub-orders get tracking numbers and are tracked.
TrackItems == {Item(TRUE, s, 50, 1) : s \in SupplierIds}

CorreiosNumber == <<"A", "B", "1", "2", "3", "4", "5", "6", "7", "8", "9", "C", "D">>
TrackingNumbers == {CorreiosNumber}

\* "http_error" stands for a RequestException as well: both take the fallback
ApiOutcomes ==
    {[kind |-> "ok", status |-> st] : st \in {"pending", "delivered", "absent"}}
    \cup {[kind |-> k, status |-> "absent"] : k \in {"http_error", "not_object"}}

InitTracking == InitWith(TrackItems, {GoodSupplier, ApiSupplier})

NextTracking ==
    \/ \E order_id \in OrderIds : ds_orders = <<>> /\ route_order(order_id)
    \/ \E id \in 1..(Len(ds_orders) + 1), tn \in TrackingNumbers :
            update_tracking_number(id, tn, None)
    \/ \E order_id \in RequestIds :
            \E apis \in [ApiRows(order_id) -> ApiOutcomes] : track_order(order_id, apis)

SpecTracking == InitTracking /\ [][NextTracking]_vars

\* Registry: connectors registered, unregistered, searched and ordered from.
AuthOutcomes == {"true", "false", "exception"}
NetOutcomes == {"ok", "RequestException"}
Bodies ==
    [accepted : BOOLEAN, message : {None, "Out of stock"}, code : {None, "OUT_OF_STOCK"}]
Product(id, price, stock_quantity) ==
    [id |-> id, price |-> price, stock_quantity |-> stock_quantity]
SearchOuts ==
    {[exception |-> TRUE, products |-> <<>>],
     [exception |-> FALSE, products |-> <<>>],
     [exception |-> FALSE, products |-> <<Product("p1", 10, 5)>>]}

InitRegistry ==
    /\ orders = [id \in OrderIds |-> NewOrder(<<>>)]
    /\ suppliers = [s \in SupplierIds |-> GoodSupplier]
    /\ ds_orders = <<>>
    /\ connectors = <<>>
    /\ active_connectors = <<>>
    /\ supplier_products = <<>>
    /\ products = <<>>
    /\ customers = <<>>
    /\ clock = 0
    /\ result = NoResult

NextRegistry ==
    \/ \E name \in ConnectorNames, connector \in Connectors, auth \in AuthOutcomes :
            register_connector(name, connector, auth)
    \/ \E name \in ConnectorNames : unregister_connector(name)
    \/ \E outs \in [1..Len(active_connectors) -> SearchOuts] : search_products_all(outs)
    \/ \E name \in ConnectorNames, net \in [1..max_retries -> NetOutcomes], body \in Bodies :
            create_order_with_supplier(name, net, body)

SpecRegistry == InitRegistry /\ [][NextRegistry]_vars

(***************************************************************************)
(* Properties.                                                             *)
(***************************************************************************)
SetOf(seq) == {seq[i] : i \in 1..Len(seq)}

RaisingOf(sids) == {s \in SetOf(sids) : SimulateRaises(s)}

\* C1: partial-failure containment. When route_order dispatches an order with
\* 3 supplier groups and the dispatch to one of them raises, route_order does
\* not raise and its result has an entry for each of the other 2 groups.
C1_PartialFailureContained ==
    (/\ result.op = "route_order"
     /\ result.order_found
     /\ Len(result.suppliers_involved) = 3
     /\ Cardinality(RaisingOf(result.suppliers_involved)) = 1)
    => /\ ~result.raised
       /\ \A s \in SetOf(result.suppliers_involved) \ RaisingOf(result.suppliers_involved) :
            \E i \in 1..Len(result.supplier_orders) :
                result.supplier_orders[i].supplier_id = s

\* C2: the strategy route_order selects is a function of the number of distinct
\* suppliers and the total order value: 0 suppliers NO_DROPSHIPPING, 1 supplier
\* SINGLE_SUPPLIER, more than 1 with total > 1000 MULTI_SUPPLIER_SPEED, more
\* than 1 with total < 200 MULTI_SUPPLIER_COST, HYBRID otherwise (totals of
\* exactly 1000 and exactly 200 included).
DistinctSuppliers(items) ==
    {items[i].supplier_id : i \in {j \in 1..Len(items) : IsDropshippingItem(items[j])}}

OrderTotal(items) == SeqSum([i \in 1..Len(items) |-> items[i].price * items[i].quantity])

ExpectedStrategy(n, total) ==
    CASE n = 0 -> "NO_DROPSHIPPING"
      [] n = 1 -> "SINGLE_SUPPLIER"
      [] n > 1 /\ total > 1000 -> "MULTI_SUPPLIER_SPEED"
      [] n > 1 /\ total < 200 -> "MULTI_SUPPLIER_COST"
      [] OTHER -> "HYBRID"

C2_StrategySelection ==
    (result.op = "route_order" /\ ~result.raised)
    => LET items == orders[result.order_id].items
           n == Cardinality(DistinctSuppliers(items))
           total == OrderTotal(items)
       IN /\ result.routing_strategy = ExpectedStrategy(n, total)
          /\ (n > 1 /\ total \in {200, 1000}) => result.routing_strategy = "HYBRID"

C2_Witness ==
    /\ result.op = "route_order" /\ ~result.raised
    /\ Cardinality(DistinctSuppliers(orders[result.order_id].items)) > 1
    /\ OrderTotal(orders[result.order_id].items) = 1000
    /\ result.routing_strategy = "HYBRID"

\* C3: a parent order never has two sub-orders for the same supplier, whatever
\* sequence of route_order calls has run.
C3_OneSubOrderPerSupplier ==
    \A i, j \in 1..Len(ds_orders) :
        (i # j /\ ds_orders[i].order_id = ds_orders[j].order_id)
        => ds_orders[i].supplier_id # ds_orders[j].supplier_id

\* C4: once route_order has attempted dispatch, every supplier group has a
\* sub-order row, whether or not its dispatch succeeded, and the parent order
\* is 'processing'.
C4_RowPerGroupAndProcessing ==
    (/\ result.op = "route_order"
     /\ result.order_found
     /\ Len(result.suppliers_involved) > 0)
    => /\ \A s \in SetOf(result.suppliers_involved) :
            \E i \in 1..Len(ds_orders) :
                /\ ds_orders[i].order_id = result.order_id
                /\ ds_orders[i].supplier_id = s
       /\ orders[result.order_id].status = "processing"

\* C5: a call of create_order sends the order-creation request to the supplier
\* at most once, whatever the transport does.
C5_SingleAttempt ==
    result.op = "create_order_with_supplier" => result.sent <= 1

\* C6: the consolidated status of track_order is 'delivered' only when every
\* sub-order is delivered; with two sub-orders shipped and delivered it is
\* 'shipped'.
C6_DeliveredOnlyWhenAll ==
    (result.op = "track_order" /\ ~result.raised /\ result.is_dropshipping)
    => /\ result.overall_status = "delivered"
            => \A i \in 1..Len(result.tracking_details) :
                    result.tracking_details[i] = "delivered"
       /\ (/\ Len(result.tracking_details) = 2
           /\ SetOf(result.tracking_details) = {"shipped", "delivered"})
            => result.overall_status = "shipped"

\* C7: register_connector never raises; it returns true, stores the connector
\* and marks it active exactly when authentication succeeds, and otherwise
\* (authentication fails or raises) returns false and leaves the stored
\* connectors and the active list as they were.
AuthSucceeds(connector, auth) ==
    connector.cls \in DemoClasses \/ auth = "true"

C7_RegisterOnlyIfAuthenticated ==
    result.op = "register_connector"
    => /\ ~result.raised
       /\ result.returned <=> AuthSucceeds(result.connector, result.auth)
       /\ result.returned
            => /\ result.name \in DOMAIN connectors
               /\ connectors[result.name] = result.connector
               /\ active_connectors = Append(result.before[2], result.name)
       /\ ~result.returned => <<connectors, active_connectors>> = result.before

C7_Witness ==
    /\ result.op = "register_connector"
    /\ ~result.returned
    /\ result.auth = "exception"
    /\ result.connector.cls = "BaseConnector"
    /\ result.name \in DOMAIN connectors
    /\ connectors[result.name] # result.connector

\* C8: search_products_all never raises; its result has exactly one entry per
\* active connector name; every active connector that is stored is queried,
\* in the order of the active list, also after an earlier one raised; a
\* connector whose (last) search raised has the empty list.
KnownActive == SelectSeq(active_connectors, LAMBDA n : n \in DOMAIN connectors)

LastAt(name) ==
    CHOOSE k \in 1..Len(active_connectors) :
        /\ active_connectors[k] = name
        /\ \A h \in (k + 1)..Len(active_connectors) : active_connectors[h] # name

SearchRaisesAt(k, outs) ==
    \/ active_connectors[k] \notin DOMAIN connectors
    \/ outs[k].exception /\ connectors[active_connectors[k]].cls = "BaseConnector"

C8_SearchAllContained ==
    result.op = "search_products_all"
    => /\ ~result.raised
       /\ DOMAIN result.results = SetOf(active_connectors)
       /\ result.queried = KnownActive
       /\ \A name \in SetOf(active_connectors) :
            SearchRaisesAt(LastAt(name), result.outs) => result.results[name] = <<>>

C8_Witness ==
    /\ result.op = "search_products_all"
    /\ Len(active_connectors) >= 2
    /\ SearchRaisesAt(1, result.outs)
    /\ active_connectors[1] \in DOMAIN connectors
    /\ active_connectors[2] # active_connectors[1]
    /\ active_connectors[2] \in DOMAIN result.results
    /\ result.results[active_connectors[2]] # <<>>

\* C9: create_order_with_supplier never raises, and every failure it returns
\* (success = false) carries both a message and an error_code.
C9_FailureHasMessageAndCode ==
    result.op = "create_order_with_supplier"
    => /\ ~result.raised
       /\ ~result.response.success
            => /\ result.response.message # None
               /\ result.response.error_code # None

\* C10: route_order and get_routing_options raise exactly when the order
\* cannot be loaded or has zero items.
C10_RaisesExactlyOnMissingOrEmpty ==
    result.op \in {"route_order", "get_routing_options"}
    => (result.raised <=> (~result.order_found \/ result.total_items = 0))

\* C11: for an order with no dropshipping supplier (strategy NO_DROPSHIPPING)
\* route_order is a no-op: it creates no sub-order and leaves the parent
\* order's status and dropshipping flag as they were.
C11_NoDropshippingIsNoOp ==
    [][(/\ result'.op = "route_order"
        /\ ~result'.raised
        /\ result'.routing_strategy = "NO_DROPSHIPPING")
       => /\ ds_orders' = ds_orders
          /\ orders'[result'.order_id].status = orders[result'.order_id].status
          /\ orders'[result'.order_id].is_dropshipping_order
                = orders[result'.order_id].is_dropshipping_order]_vars

\* C12: get_routing_options is a dry run: whatever the order, the call leaves
\* the persisted state (the orders, with their status, and the sub-orders)
\* as it was.
C12_RoutingOptionsDryRun ==
    [][result'.op = "get_routing_options"
       => (orders' = orders /\ ds_orders' = ds_orders)]_vars

C12_Witness ==
    /\ result.op = "get_routing_options"
    /\ ~result.raised
    /\ result.has_dropshipping_items
    /\ Len(result.routing_options) >= 3
    /\ orders[result.order_id].status = "pending"
    /\ ds_orders = <<>>

(***************************************************************************)
(* Sub-order statuses. The services of the repository write only 'pending' *)
(* (routing) and 'shipped' (update_tracking_number); the other statuses     *)
(* that the services read ('confirmed', 'delivered', ...) are written to    *)
(* the rows by other parts of the application, so the rows that exist       *)
(* before the first call carry any status.                                  *)
(***************************************************************************)
SubOrderStatuses == {"pending", "confirmed", "shipped", "delivered", "cancelled", "failed"}

ExistingRow(id, order_id, sid, status) ==
    [DsRow(id, order_id, sid, _simulate_supplier_order(sid, <<>>), 1)
        EXCEPT !.supplier_status = status]

InitStatus ==
    /\ suppliers = [s \in SupplierIds |-> IF s = 1 THEN ApiSupplier ELSE GoodSupplier]
    /\ \E statuses \in BoundedSeq(SubOrderStatuses, MaxSubOrders - 1) :
        /\ ds_orders = [i \in 1..Len(statuses) |-> ExistingRow(i, 1, i, statuses[i])]
        /\ orders = [id \in OrderIds |->
                        [NewOrder([i \in 1..(Len(statuses) + 1) |-> Item(TRUE, i, 50, 1)])
                            EXCEPT !.status = IF Len(statuses) = 0 THEN "pending"
                                              ELSE "processing",
                                   !.is_dropshipping_order = Len(statuses) > 0]]
    /\ connectors = <<>>
    /\ active_connectors = <<>>
    /\ supplier_products = <<>>
    /\ products = <<>>
    /\ customers = <<>>
    /\ clock = 0
    /\ result = NoResult

NextStatus ==
    \/ \E order_id \in OrderIds : route_order(order_id)
    \/ \E id \in 1..(Len(ds_orders) + 1), tn \in TrackingNumbers :
            update_tracking_number(id, tn, None)
    \/ \E order_id \in OrderIds :
            \E apis \in [ApiRows(order_id) -> ApiOutcomes] : track_order(order_id, apis)

SpecStatus == InitStatus /\ [][NextStatus]_vars

StatusRank(status) ==
    CASE status = "pending" -> 1
      [] status = "confirmed" -> 2
      [] status = "shipped" -> 3
      [] status = "delivered" -> 4
      [] OTHER -> 5

\* a step from status a to status b that does not go back
Forward(a, b) ==
    \/ a = b
    \/ a \notin {"delivered", "cancelled", "failed"} /\ StatusRank(a) < StatusRank(b)

\* C13: over any sequence of route_order, update_tracking_number and
\* track_order a sub-order's status only moves forward along pending,
\* confirmed, shipped, delivered (or to cancelled/failed) and never returns to
\* an earlier status; no sub-order disappears; update_tracking_number leaves
\* a delivered, cancelled or failed sub-order's status as it is.
C13_StatusMonotonic ==
    [][/\ Len(ds_orders') >= Len(ds_orders)
       /\ \A i \in 1..Len(ds_orders) :
            Forward(ds_orders[i].supplier_status, ds_orders'[i].supplier_status)]_vars

C13_Witness ==
    /\ result.op = "update_tracking_number"
    /\ ~result.raised
    /\ result.status \in {"delivered", "cancelled", "failed"}
    /\ ds_orders[result.dropshipping_order_id].tracking_number # NoTracking
    /\ \E i \in 1..Len(ds_orders) :
        /\ ds_orders[i].supplier_status = "shipped"
        /\ ds_orders[i].tracking_number # NoTracking

(***************************************************************************)
(* Routing of orders whose suppliers differ in shipping cost and time, so   *)
(* that the orders by cost, by speed and by hybrid score differ.            *)
(***************************************************************************)
\* free shipping, slower than GoodSupplier
SlowSupplier == SupplierRow(0, 3, 5, FALSE)

InitSort == InitWith(RouteItems, {GoodSupplier, SlowSupplier})

NextSort ==
    \E order_id \in OrderIds :
        /\ ds_orders = <<>>
        /\ \/ route_order(order_id)
           \/ get_routing_options(order_id)

SpecSort == InitSort /\ [][NextSort]_vars

\* the group of supplier sid in a list of supplier groups, without the score
\* that the hybrid routing attaches
GroupOf(groups, sid) ==
    LET g == groups[CHOOSE i \in 1..Len(groups) : groups[i].supplier_id = sid]
    IN [supplier_id |-> g.supplier_id, items |-> g.items,
        total_value |-> g.total_value, total_quantity |-> g.total_quantity,
        estimated_shipping_days |-> g.estimated_shipping_days]

\* C14: for every strategy route_order chooses, the executed list that a call
\* returns holds every supplier group of the analysis exactly once (same
\* groups, possibly in another order), and exactly one sub-order per involved
\* supplier is dispatched by the call.
C14_StrategyOnlyReorders ==
    (result.op = "route_order" /\ ~result.raised)
    => LET analysis == _analyze_order_items(orders[result.order_id])
           involved == SupplierIdsOf(analysis.suppliers_involved)
           executed == SupplierIdsOf(result.supplier_orders)
       IN /\ Len(executed) = Len(involved)
          /\ SetOf(executed) = SetOf(involved)
          /\ Cardinality(SetOf(executed)) = Len(executed)
          /\ \A s \in SetOf(involved) :
                GroupOf(result.supplier_orders, s) = GroupOf(analysis.suppliers_involved, s)
          /\ Len(result.dropshipping_orders) = Len(involved)
          /\ \A s \in SetOf(involved) :
                Cardinality({i \in 1..Len(ds_orders) :
                                /\ ds_orders[i].order_id = result.order_id
                                /\ ds_orders[i].supplier_id = s}) = 1

C14_Witness ==
    /\ result.op = "route_order" /\ ~result.raised
    /\ result.routing_strategy = "MULTI_SUPPLIER_COST"
    /\ Len(result.supplier_orders) = 2
    /\ SupplierIdsOf(result.supplier_orders)
        # SupplierIdsOf(_analyze_order_items(orders[result.order_id]).suppliers_involved)
    /\ Len(ds_orders) = 2

\* C15: the result of route_order reports each supplier's outcome and the
\* success counts: for a two-supplier order every entry of supplier_orders
\* carries a success flag, and the result gives the number of successful
\* entries (successful_orders) and the total (total_orders = 2).
C15_ResultReportsOutcomes ==
    (/\ result.op = "route_order"
     /\ ~result.raised
     /\ Len(result.supplier_orders) = 2)
    => /\ \A i \in 1..Len(result.supplier_orders) :
            "success" \in DOMAIN result.supplier_orders[i]
       /\ {"successful_orders", "total_orders"} \subseteq DOMAIN result
       /\ result.total_orders = 2
       /\ result.successful_orders =
            Cardinality({i \in 1..Len(result.supplier_orders) :
                            result.supplier_orders[i].success})

(***************************************************************************)
(* Hybrid routing of orders between the two value thresholds, over          *)
(* suppliers that include one with no shipping cost and no shipping time.   *)
(***************************************************************************)
InstantSupplier == SupplierRow(0, 0, 0, FALSE)

\* two or three items of this price give a total between the thresholds
HybridItems == {Item(TRUE, s, 300, 1) : s \in SupplierIds}

InitHybrid == InitWith(HybridItems, {GoodSupplier, SlowSupplier, InstantSupplier})

NextHybrid == \E order_id \in OrderIds : ds_orders = <<>> /\ route_order(order_id)

SpecHybrid == InitHybrid /\ [][NextHybrid]_vars

\* a HYBRID routing whose supplier groups all have the same shipping cost and
\* the same estimated shipping days
HybridOfEqualGroups ==
    /\ result.op = "route_order"
    /\ ~result.raised
    /\ result.routing_strategy = "HYBRID"
    /\ \A i, j \in 1..Len(result.supplier_orders) :
        /\ suppliers[result.supplier_orders[i].supplier_id].shipping_cost
            = suppliers[result.supplier_orders[j].supplier_id].shipping_cost
        /\ result.supplier_orders[i].estimated_shipping_days
            = result.supplier_orders[j].estimated_shipping_days

GroupingOrderKept ==
    SupplierIdsOf(result.supplier_orders)
        = SupplierIdsOf(_analyze_order_items(orders[result.order_id]).suppliers_involved)

\* C16 as stated: when all supplier groups have identical shipping cost and
\* identical estimated shipping days, every group's hybrid score is 0 and
\* HYBRID returns the groups in their grouping order.
C16_EqualGroupsScoreZero ==
    HybridOfEqualGroups
    => /\ \A i \in 1..Len(result.supplier_orders) :
            result.supplier_orders[i].hybrid_score.num = 0
       /\ GroupingOrderKept

\* C16 amended: when all supplier groups have identical shipping cost and
\* identical estimated shipping days, every group has the same hybrid score,
\* 0.6 if the cost is positive plus 0.4 if the days are positive (1.0 when
\* both are, 0 only when cost and days are both 0), and HYBRID returns the
\* groups in their grouping order.
C16_EqualGroupsSameScore ==
    HybridOfEqualGroups
    => /\ \A i \in 1..Len(result.supplier_orders) :
            LET g == result.supplier_orders[i]
                cost == suppliers[g.supplier_id].shipping_cost
                days == g.estimated_shipping_days
                tenths == (IF cost > 0 THEN HybridWeightCost ELSE 0)
                        + (IF days > 0 THEN HybridWeightTime ELSE 0)
            IN /\ 10 * g.hybrid_score.num = tenths * g.hybrid_score.den
               /\ g.hybrid_score.den > 0
               /\ (g.hybrid_score.num = 0) <=> (cost = 0 /\ days = 0)
       /\ GroupingOrderKept

C16_Witness ==
    /\ HybridOfEqualGroups
    /\ Len(result.supplier_orders) >= 2
    /\ \A i \in 1..Len(result.supplier_orders) :
        /\ result.supplier_orders[i].hybrid_score.num
            = result.supplier_orders[i].hybrid_score.den
    /\ result.supplier_orders[1].supplier_id > result.supplier_orders[2].supplier_id

(***************************************************************************)
(* ConnectorManager._calculate_product_score and                            *)
(* find_best_supplier_for_product                                           *)
(* A score is the exact fraction num / den (den > 0). criteria is           *)
(* {'priority': priority} with the default weights 0.7 and 0.3, kept in     *)
(* tenths; any priority other than 'price' and 'stock' is the composite     *)
(* score.                                                                   *)
(***************************************************************************)
price_weight == 7
stock_weight == 3
StockCap == 100

Priorities == {"price", "stock", "composite"}

_calculate_product_score(product, priority) ==
    IF priority = "price" THEN [num |-> product.price, den |-> 1]
    ELSE IF priority = "stock" THEN [num |-> product.stock_quantity, den |-> 1]
    ELSE \* 0.7 * 1 / (price + 1) + 0.3 * min(stock / 100, 1.0)
         [num |-> price_weight * StockCap
                    + stock_weight * Min2(product.stock_quantity, StockCap)
                        * (product.price + 1),
          den |-> 10 * StockCap * (product.price + 1)]

ScoreLess(a, b) == a.num * b.den < b.num * a.den

\* all_results.items(): the keys of a dict come in the order of their first
\* insertion, here the first occurrence of each name in the active list
DictKeys(names) ==
    LET RECURSIVE Keys(_)
        Keys(n) == IF n = 0 THEN <<>>
                   ELSE IF \E i \in 1..(n - 1) : names[i] = names[n]
                        THEN Keys(n - 1)
                        ELSE Append(Keys(n - 1), names[n])
    IN Keys(Len(names))

\* the (supplier, product) pairs in the order the two nested loops meet them
Encountered(keys, all_results) ==
    LET RECURSIVE Flat(_)
        Flat(n) ==
            IF n = 0 THEN <<>>
            ELSE Flat(n - 1) \o
                 [j \in 1..Len(all_results[keys[n]]) |->
                    [supplier |-> keys[n], product |-> all_results[keys[n]][j]]]
    IN Flat(Len(keys))

NoOption == [found |-> FALSE]

\* selecting with <= and >=: the last of the equally good products wins
BetterOrEqual(priority, best, score) ==
    IF priority = "price"
    THEN ~best.found \/ ~ScoreLess(best.score, score)
    ELSE ~ScoreLess(score, IF best.found THEN best.score ELSE [num |-> 0, den |-> 1])

\* the comparison of a product's score with best_score, which starts as
\* float('inf') for priority 'price' and as 0 otherwise
Better(priority, best, score) ==
    IF priority = "price"
    THEN ~best.found \/ ScoreLess(score, best.score)
    ELSE ScoreLess(IF best.found THEN best.score ELSE [num |-> 0, den |-> 1], score)

BestOf(pairs, priority) ==
    LET RECURSIVE Scan(_)
        Scan(n) ==
            IF n = 0 THEN NoOption
            ELSE LET best == Scan(n - 1)
                     score == _calculate_product_score(pairs[n].product, priority)
                 IN IF Better(priority, best, score)
                    THEN [found |-> TRUE, supplier |-> pairs[n].supplier,
                          product |-> pairs[n].product, score |-> score]
                    ELSE best
    IN Scan(Len(pairs))

find_best_supplier_for_product(outs, priority) ==
    /\ LET all_results == SearchLoop(Len(active_connectors), outs).results
           pairs == Encountered(DictKeys(active_connectors), all_results)
       IN result' = [op |-> "find_best_supplier_for_product", raised |-> FALSE,
                     priority |-> priority, encountered |-> pairs,
                     best_option |-> BestOf(pairs, priority)]
    /\ UNCHANGED <<orders, suppliers, ds_orders, connectors, active_connectors, supplier_products, products,
                   customers, clock>>

\* what a search finds: nothing, one product, equally good products, products
\* without stock
BestOuts ==
    {[exception |-> TRUE, products |-> <<>>],
     [exception |-> FALSE, products |-> <<>>],
     [exception |-> FALSE, products |-> <<Product("p1", 10, 5)>>],
     [exception |-> FALSE, products |-> <<Product("p1", 10, 5), Product("p2", 10, 5)>>],
     [exception |-> FALSE, products |-> <<Product("p1", 20, 0), Product("p2", 20, 0)>>],
     [exception |-> FALSE, products |-> <<Product("p1", 20, 0), Product("p2", 10, 5)>>]}

\* a demo connector and an implementation whose search may raise
BestConnectors == {[cls |-> c] : c \in DemoClasses \cup {"BaseConnector"}}

NextBest ==
    \/ \E name \in ConnectorNames, connector \in BestConnectors, auth \in AuthOutcomes :
            register_connector(name, connector, auth)
    \/ \E outs \in [1..Len(active_connectors) -> BestOuts], priority \in Priorities :
            find_best_supplier_for_product(outs, priority)

SpecBest == InitRegistry /\ [][NextBest]_vars

\* the positions of the encountered products whose score no other beats
BestPositions ==
    LET pairs == result.encountered
        score(i) == _calculate_product_score(pairs[i].product, result.priority)
    IN {i \in 1..Len(pairs) :
            \A j \in 1..Len(pairs) :
                IF result.priority = "price" THEN ~ScoreLess(score(j), score(i))
                ELSE ~ScoreLess(score(i), score(j))}

FirstBestSelected ==
    LET first == CHOOSE i \in BestPositions : \A j \in BestPositions : i <= j
    IN /\ result.best_option.found
       /\ result.best_option.supplier = result.encountered[first].supplier
       /\ result.best_option.product = result.encountered[first].product

\* C17: when several products returned by search_products_all have the same
\* best score, find_best_supplier_for_product selects the one met first in
\* supplier iteration order (and first within that supplier's list), for the
\* minimising priority 'price' and for the maximising priorities.
C17_TieBreakFirstSeen ==
    (/\ result.op = "find_best_supplier_for_product"
     /\ Cardinality(BestPositions) > 1)
    => FirstBestSelected

\* the tie-break of C17 for the ties whose score differs from the starting
\* best_score of the maximising priorities (0)
C17_TieBreakAboveStart ==
    (/\ result.op = "find_best_supplier_for_product"
     /\ Cardinality(BestPositions) > 1
     /\ \/ result.priority = "price"
        \/ \E i \in BestPositions :
            _calculate_product_score(result.encountered[i].product, result.priority).num > 0)
    => FirstBestSelected

(***************************************************************************)
(* SyncService.sync_supplier_products, _process_products_data,              *)
(* _create_supplier_product, _auto_map_product                              *)
(* An entry of products_data is [sku, priced]: sku NoSku stands for a       *)
(* missing or empty 'sku', priced FALSE for 'price': None, with which the   *)
(* price computation of _auto_map_product raises. auto_import is the        *)
(* supplier's auto_import_products at the time of the call. autoflush is    *)
(* the session's setting (the session is configured outside these           *)
(* sources): with it the lookup query flushes the pending rows first,       *)
(* without it a pending row is visible to the query only after the          *)
(* db.session.flush() of _auto_map_product.                                  *)
(***************************************************************************)
NoSku == ""
Skus == {"A"}

MaxCatalog == 3     \* syncs are explored that leave at most this many SupplierProduct rows
MaxBatch == 2       \* entries of one products_data

SyncSuppliers == {0, 1, 2}      \* 0: no such supplier (or inactive)

ProductData == [sku : Skus, priced : BOOLEAN] \cup {[sku |-> NoSku, priced |-> TRUE]}

\* the lookup that finds no row
FindNothing(sp, pending, supplier_id, sku) == 0

\* SupplierProduct.query.filter_by(supplier_id=..., supplier_sku=sku).first()
\* over the rows the database has: the index of the first one, 0 for None
existing_product(sp, pending, supplier_id, sku) ==
    LET found == {i \in 1..Len(sp) : /\ i \notin pending
                                     /\ sp[i].supplier_id = supplier_id
                                     /\ sp[i].supplier_sku = sku}
    IN IF found = {} THEN 0 ELSE CHOOSE i \in found : \A j \in found : i <= j

\* one pass of the loop of _process_products_data; st holds the two tables,
\* the indices of the SupplierProduct rows not yet flushed and the counters
ProcessOne(st, supplier_id, product_data, auto_import, autoflush) ==
    IF product_data.sku = NoSku
    THEN [st EXCEPT !.errors = @ + 1]
    ELSE LET pending == IF autoflush THEN {} ELSE st.pending
             existing == existing_product(st.sp, pending, supplier_id, product_data.sku)
         IN IF existing # 0
            THEN \* _update_supplier_product: the key and the mapping stay
                 [st EXCEPT !.pending = pending,
                            !.updated = @ + 1, !.synced = @ + 1]
            ELSE \* _create_supplier_product
                 LET row == [supplier_id |-> supplier_id,
                             supplier_sku |-> product_data.sku,
                             is_mapped |-> FALSE, product_id |-> 0]
                     at == Len(st.sp) + 1
                 IN IF auto_import /\ product_data.priced
                    THEN \* _auto_map_product: Product added, flush, mapping kept
                         [st EXCEPT
                            !.pr = Append(@, [supplier_id |-> supplier_id,
                                              supplier_product_id |-> product_data.sku,
                                              sku |-> <<"DS-", product_data.sku>>]),
                            !.sp = Append(@, [row EXCEPT !.is_mapped = TRUE,
                                                         !.product_id = Len(st.pr) + 1]),
                            !.pending = {},
                            !.new = @ + 1, !.synced = @ + 1]
                    ELSE \* no auto-import, or the price computation raised
                         [st EXCEPT !.sp = Append(@, row),
                                    !.pending = pending \cup {at},
                                    !.new = @ + 1, !.synced = @ + 1]

_process_products_data(supplier_id, products_data, auto_import, autoflush) ==
    LET RECURSIVE Loop(_)
        Loop(n) ==
            IF n = 0
            THEN [sp |-> supplier_products, pr |-> products, pending |-> {},
                  synced |-> 0, new |-> 0, updated |-> 0, errors |-> 0]
            ELSE ProcessOne(Loop(n - 1), supplier_id, products_data[n],
                            auto_import, autoflush)
    IN Loop(Len(products_data))

sync_supplier_products(supplier_id, products_data, auto_import, autoflush) ==
    /\ Len(_process_products_data(supplier_id, products_data,
                                   auto_import, autoflush).sp) <= MaxCatalog
    /\ IF supplier_id \notin DOMAIN suppliers
       THEN /\ result' = [op |-> "sync_supplier_products", raised |-> TRUE,
                          supplier_id |-> supplier_id]
            /\ UNCHANGED <<supplier_products, products>>
       ELSE LET st == _process_products_data(supplier_id, products_data,
                                             auto_import, autoflush)
            IN \* db.session.commit()
               /\ supplier_products' = st.sp
               /\ products' = st.pr
               /\ result' = [op |-> "sync_supplier_products", raised |-> FALSE,
                             supplier_id |-> supplier_id,
                             auto_import |-> auto_import,
                             repeated_skus |->
                                {products_data[i].sku : i \in
                                    {j \in 1..Len(products_data) :
                                        \E k \in 1..(j - 1) :
                                            products_data[k] = products_data[j]
                                            /\ products_data[j].priced}},
                             synced_products |-> st.synced,
                             new_products |-> st.new,
                             updated_products |-> st.updated,
                             errors |-> st.errors]
    /\ UNCHANGED <<orders, suppliers, ds_orders, connectors, active_connectors, customers, clock>>

NextSync ==
    \E supplier_id \in SyncSuppliers, products_data \in BoundedSeq(ProductData, MaxBatch),
       auto_import \in BOOLEAN, autoflush \in BOOLEAN :
        sync_supplier_products(supplier_id, products_data, auto_import, autoflush)

SpecSync == InitRegistry /\ [][NextSync]_vars

ProductsOf(supplier_id, sku) ==
    {i \in 1..Len(products) : /\ products[i].supplier_id = supplier_id
                               /\ products[i].supplier_product_id = sku}

\* C18: after any sequence of catalog syncs (batches that list a SKU twice,
\* repeated syncs of a supplier with auto-import included) each
\* (supplier_id, supplier_sku) pair has at most one canonical Product, and the
\* SupplierProduct rows of the pair that are mapped all point to it.
C18_OneProductPerSupplierSku ==
    \A supplier_id \in SyncSuppliers, sku \in Skus :
        /\ Cardinality(ProductsOf(supplier_id, sku)) <= 1
        /\ \A i \in 1..Len(supplier_products) :
            (/\ supplier_products[i].supplier_id = supplier_id
             /\ supplier_products[i].supplier_sku = sku
             /\ supplier_products[i].is_mapped)
            => supplier_products[i].product_id \in ProductsOf(supplier_id, sku)

C18_Witness ==
    /\ result.op = "sync_supplier_products"
    /\ ~result.raised
    /\ result.auto_import
    /\ result.updated_products = 2
    /\ \E sku \in result.repeated_skus :
        Cardinality(ProductsOf(result.supplier_id, sku)) = 1

(***************************************************************************)
(* Carrier identification over tracking numbers of many shapes: a prefix,   *)
(* a run of digits, a suffix.                                               *)
(***************************************************************************)
MaxDigits == 16

\* the digits 1, 2, ..., 9, 0, 1, ...
DigitRun(n) ==
    [i \in 1..n |-> <<"0", "1", "2", "3", "4", "5", "6", "7", "8", "9">>[(i % 10) + 1]]

CarrierPrefixes ==
    {<<>>, <<"A", "B">>, <<"T", "E">>, <<"L", "G">>, <<"M", "E">>, <<"1", "Z">>,
     <<"X", "Y", "Z">>}

CarrierSuffixes == {<<>>, <<"C", "D">>}

CarrierNumbers ==
    {pre \o DigitRun(n) \o suf :
        pre \in CarrierPrefixes, n \in 0..MaxDigits, suf \in CarrierSuffixes}

InitCarrier ==
    /\ orders = [id \in OrderIds |->
                    [NewOrder(<<Item(TRUE, 1, 50, 1), Item(TRUE, 2, 50, 1)>>)
                        EXCEPT !.status = "processing",
                               !.is_dropshipping_order = TRUE,
                               !.tracking_number = CorreiosNumber]]
    /\ suppliers = [s \in SupplierIds |-> GoodSupplier]
    \* the first sub-order has its tracking number, the second is waiting for one
    /\ ds_orders = <<[ExistingRow(1, 1, 1, "shipped")
                        EXCEPT !.tracking_number = CorreiosNumber,
                               !.carrier = "correios"],
                     ExistingRow(2, 1, 2, "pending")>>
    /\ connectors = <<>>
    /\ active_connectors = <<>>
    /\ supplier_products = <<>>
    /\ products = <<>>
    /\ customers = <<>>
    /\ clock = 0
    /\ result = NoResult

NextCarrier ==
    \E tn \in CarrierNumbers : update_tracking_number(Len(ds_orders), tn, None)

SpecCarrier == InitCarrier /\ [][NextCarrier]_vars

AllDigits(tn, from, to) == \A i \in from..to : tn[i] \in Digit
AllUpper(tn, from, to) == \A i \in from..to : tn[i] \in Upper
StartsWith(tn, a, b) == Len(tn) >= 2 /\ tn[1] = a /\ tn[2] = b

\* the shape of each carrier's codes, in the order of the table
CarrierShapes(tn) ==
    << <<"correios", /\ Len(tn) = 13
                     /\ AllUpper(tn, 1, 2) /\ AllDigits(tn, 3, 11)
                     /\ AllUpper(tn, 12, 13)>>,
       <<"jadlog", Len(tn) = 14 /\ AllDigits(tn, 1, 14)>>,
       <<"total_express", Len(tn) = 12 /\ StartsWith(tn, "T", "E") /\ AllDigits(tn, 3, 12)>>,
       <<"loggi", Len(tn) = 10 /\ StartsWith(tn, "L", "G") /\ AllDigits(tn, 3, 10)>>,
       <<"mercado_envios", Len(tn) = 14 /\ StartsWith(tn, "M", "E") /\ AllDigits(tn, 3, 14)>>,
       <<"ups", /\ Len(tn) = 18 /\ StartsWith(tn, "1", "Z")
                /\ \A i \in 3..18 : tn[i] \in Upper \cup Digit>>,
       <<"fedex", Len(tn) \in 12..14 /\ AllDigits(tn, 1, Len(tn))>>,
       <<"dhl", Len(tn) \in 10..11 /\ AllDigits(tn, 1, Len(tn))>> >>

FirstShape(tn) ==
    LET shapes == CarrierShapes(tn)
        fits == {k \in 1..Len(shapes) : shapes[k][2]}
    IN IF fits = {} THEN "unknown"
       ELSE shapes[CHOOSE k \in fits : \A h \in fits : k <= h][1]

\* C19: _identify_carrier never raises and gives the first carrier of the
\* table whose pattern the tracking number matches, 'unknown' when none
\* does: two letters, nine digits, two letters is 'correios', "XYZ" is
\* 'unknown', 14 digits (jadlog and fedex both match) is 'jadlog'.
C19_IdentifyCarrier ==
    result.op = "update_tracking_number"
    => /\ ~result.raised
       /\ LET tn == result.tracking_number
          IN /\ result.carrier = FirstShape(tn)
             /\ tn = CorreiosNumber => result.carrier = "correios"
             /\ tn = <<"X", "Y", "Z">> => result.carrier = "unknown"
             /\ (Len(tn) = 14 /\ AllDigits(tn, 1, 14)) => result.carrier = "jadlog"

C19_Witness ==
    /\ result.op = "update_tracking_number"
    /\ ~result.raised
    /\ Len(result.tracking_number) = 14
    /\ AllDigits(result.tracking_number, 1, 14)
    /\ result.carrier = "jadlog"
    /\ ds_orders[result.dropshipping_order_id].carrier = "jadlog"


(***************************************************************************)
(* C20: statuses reported by track_order                                   *)
(***************************************************************************)
\* class OrderStatus(Enum)
OrderStatus ==
    {"pending", "confirmed", "processing", "shipped", "delivered", "cancelled",
     "failed"}

\* a track_order call that answered for a dropshipping order
TrackedSubOrders ==
    /\ result.op = "track_order"
    /\ ~result.raised
    /\ result.is_dropshipping

\* C20: the status that track_order reports for a sub-order is always a
\* member of the canonical enum {pending, confirmed, processing, shipped,
\* delivered, cancelled, failed}, also when it comes from the supplier's
\* tracking API, when that call fails and when tracking the sub-order raises.
C20_StatusCanonical ==
    TrackedSubOrders
        => \A i \in 1..Len(result.tracking_details) :
                result.tracking_details[i] \in OrderStatus


(***************************************************************************)
(* C21: the orders by cost and by speed                                    *)
(***************************************************************************)
PositionIn(ids, s) == CHOOSE i \in 1..Len(ids) : ids[i] = s

\* ids holds the supplier ids of involved, each once, ascending by key, ids
\* of equal key in the order they have in involved
StablySortedBy(ids, involved, key) ==
    /\ Len(ids) = Len(involved)
    /\ SetOf(ids) = SetOf(involved)
    /\ \A i, j \in 1..Len(ids) :
        i < j => \/ key[ids[i]] < key[ids[j]]
                 \/ /\ key[ids[i]] = key[ids[j]]
                    /\ PositionIn(involved, ids[i]) < PositionIn(involved, ids[j])

\* the supplier's flat shipping cost
CostKey == [s \in SupplierIds |-> suppliers[s].shipping_cost]

\* twice the estimated days (min_days + max_days) / 2 of the supplier
DaysKey ==
    [s \in SupplierIds |->
        suppliers[s].shipping_time_min_days + suppliers[s].shipping_time_max_days]

KeyOf(strategy) == IF strategy = "MULTI_SUPPLIER_COST" THEN CostKey ELSE DaysKey

\* C21: MULTI_SUPPLIER_COST returns the supplier groups sorted ascending by
\* the supplier's flat shipping cost and MULTI_SUPPLIER_SPEED returns them
\* sorted ascending by estimated shipping days, a group's estimated days
\* being (min_days + max_days) / 2 of its supplier; groups with equal keys
\* keep their grouping order. Checked on the list route_order executes and
\* on the two options get_routing_options computes.
C21_SortedByCostOrSpeed ==
    LET involved ==
            SupplierIdsOf(_analyze_order_items(orders[result.order_id]).suppliers_involved)
    IN /\ (/\ result.op = "route_order"
           /\ ~result.raised
           /\ result.routing_strategy \in {"MULTI_SUPPLIER_COST", "MULTI_SUPPLIER_SPEED"})
          => /\ StablySortedBy(SupplierIdsOf(result.supplier_orders), involved,
                               KeyOf(result.routing_strategy))
             /\ \A i \in 1..Len(result.supplier_orders) :
                    result.supplier_orders[i].estimated_shipping_days
                        = DaysKey[result.supplier_orders[i].supplier_id]
       /\ (/\ result.op = "get_routing_options"
           /\ ~result.raised
           /\ result.has_dropshipping_items)
          => \A k \in 1..Len(result.routing_options) :
                LET option == result.routing_options[k]
                IN option.strategy_name \in {"MULTI_SUPPLIER_COST", "MULTI_SUPPLIER_SPEED"}
                    => StablySortedBy(option.suppliers, involved,
                                      KeyOf(option.strategy_name))

\* a routing by speed of three groups, two of them equally fast, whose order
\* is neither the grouping order nor the order by cost
C21_Witness ==
    /\ result.op = "route_order"
    /\ ~result.raised
    /\ result.routing_strategy = "MULTI_SUPPLIER_SPEED"
    /\ Len(result.supplier_orders) = 3
    /\ LET ids == SupplierIdsOf(result.supplier_orders)
           analysis == _analyze_order_items(orders[result.order_id])
       IN /\ ids # SupplierIdsOf(analysis.suppliers_involved)
          /\ ids # SupplierIdsOf(_route_by_cost(analysis))
          /\ DaysKey[ids[1]] = DaysKey[ids[2]]
          /\ DaysKey[ids[2]] < DaysKey[ids[3]]


(***************************************************************************)
(* C22: the order by hybrid score                                          *)
(***************************************************************************)
\* 0.6 * cost / max cost + 0.4 * days / max days of supplier s among the
\* suppliers ids, as the fraction num / den; a term whose maximum is 0 is 0
HybridScoreOf(s, ids) ==
    LET max_cost == SeqMax([i \in 1..Len(ids) |-> CostKey[ids[i]]])
        max_days == SeqMax([i \in 1..Len(ids) |-> DaysKey[ids[i]]])
    IN IF max_cost > 0 /\ max_days > 0
       THEN [num |-> HybridWeightCost * CostKey[s] * max_days
                        + HybridWeightTime * DaysKey[s] * max_cost,
             den |-> 10 * max_cost * max_days]
       ELSE IF max_cost > 0
       THEN [num |-> HybridWeightCost * CostKey[s], den |-> 10 * max_cost]
       ELSE IF max_days > 0
       THEN [num |-> HybridWeightTime * DaysKey[s], den |-> 10 * max_days]
       ELSE [num |-> 0, den |-> 1]

FractionEq(a, b) == a.num * b.den = b.num * a.den
FractionLeq(a, b) == a.num * b.den <= b.num * a.den

HybridRouted ==
    /\ result.op = "route_order"
    /\ ~result.raised
    /\ result.routing_strategy = "HYBRID"

\* C22: HYBRID returns the supplier groups sorted ascending by
\* score = 0.6 * (shipping cost / max shipping cost over the order's groups)
\*       + 0.4 * (estimated days / max estimated days over the order's groups),
\* a term being 0 when its maximum is 0; a group with both lower cost and
\* lower days than another always precedes it.
C22_HybridSortedByScore ==
    HybridRouted
    => LET groups == result.supplier_orders
           ids == SupplierIdsOf(groups)
       IN /\ SetOf(ids) = SetOf(SupplierIdsOf(
                            _analyze_order_items(orders[result.order_id]).suppliers_involved))
          /\ \A i \in 1..Len(groups) :
                /\ groups[i].hybrid_score.den > 0
                /\ FractionEq(groups[i].hybrid_score, HybridScoreOf(ids[i], ids))
          /\ \A i, j \in 1..Len(groups) :
                /\ i < j => FractionLeq(HybridScoreOf(ids[i], ids), HybridScoreOf(ids[j], ids))
                /\ (/\ CostKey[ids[i]] < CostKey[ids[j]]
                    /\ DaysKey[ids[i]] < DaysKey[ids[j]]) => i < j

\* a hybrid routing of three groups with three different scores that changes
\* the grouping order and puts a group that is lower in cost and in days first
C22_Witness ==
    /\ HybridRouted
    /\ Len(result.supplier_orders) = 3
    /\ LET ids == SupplierIdsOf(result.supplier_orders)
       IN /\ ids # SupplierIdsOf(_analyze_order_items(orders[result.order_id]).suppliers_involved)
          /\ ~FractionLeq(HybridScoreOf(ids[2], ids), HybridScoreOf(ids[1], ids))
          /\ ~FractionLeq(HybridScoreOf(ids[3], ids), HybridScoreOf(ids[2], ids))
          /\ CostKey[ids[1]] < CostKey[ids[3]]
          /\ DaysKey[ids[1]] < DaysKey[ids[3]]
          /\ CostKey[ids[2]] < CostKey[ids[3]]
          /\ DaysKey[ids[2]] > DaysKey[ids[3]]


(***************************************************************************)
(* C23: the options of get_routing_options                                 *)
(***************************************************************************)
OptionsReturned ==
    /\ result.op = "get_routing_options"
    /\ ~result.raised
    /\ result.has_dropshipping_items

ApplicableStrategies(n_suppliers) ==
    IF n_suppliers = 1
    THEN {"SINGLE_SUPPLIER", "MULTI_SUPPLIER_COST", "MULTI_SUPPLIER_SPEED", "HYBRID"}
    ELSE {"MULTI_SUPPLIER_COST", "MULTI_SUPPLIER_SPEED", "HYBRID"}

\* C23: get_routing_options evaluates every applicable strategy, offering
\* SINGLE_SUPPLIER only when exactly one supplier is involved, gives each
\* option a recommendation score within 0..100, and returns the options in
\* descending order of score, recommended_strategy being an option of
\* maximal score.
C23_OptionsScoredAndSorted ==
    OptionsReturned
    => LET options == result.routing_options
           names == [k \in 1..Len(options) |-> options[k].strategy_name]
           involved == _analyze_order_items(orders[result.order_id]).suppliers_involved
       IN /\ SetOf(names) = ApplicableStrategies(Len(involved))
          /\ Cardinality(SetOf(names)) = Len(names)
          /\ ("SINGLE_SUPPLIER" \in SetOf(names)) <=> (Len(involved) = 1)
          /\ \A k \in 1..Len(options) : options[k].recommendation_score \in 0..100
          /\ \A i, j \in 1..Len(options) :
                i < j => options[i].recommendation_score >= options[j].recommendation_score
          /\ \E k \in 1..Len(options) :
                /\ options[k].strategy_name = result.recommended_strategy
                /\ \A j \in 1..Len(options) :
                    options[j].recommendation_score <= options[k].recommendation_score

\* the options of a one-supplier order of low value: all four strategies,
\* SINGLE_SUPPLIER recommended, in an order that is not the order of evaluation
C23_Witness ==
    /\ OptionsReturned
    /\ Len(result.routing_options) = 4
    /\ result.recommended_strategy = "SINGLE_SUPPLIER"
    /\ result.routing_options[1].recommendation_score
        > result.routing_options[4].recommendation_score
    /\ result.routing_options[4].strategy_name = "MULTI_SUPPLIER_SPEED"


(***************************************************************************)
(* TrackingService._simulate_tracking                                      *)
(* Timestamps are whole days; NoTime is a timestamp that is None. The two   *)
(* random.randint draws and datetime.utcnow() are inputs of the call.       *)
(***************************************************************************)
NoTime == 0 - 1
MaxStoredDay == 2       \* stored timestamps lie in 0..MaxStoredDay
MaxDay == 5             \* datetime.utcnow() lies in 0..MaxDay

Event(date, status) == [date |-> date, status |-> status]

\* events.append(...) under a condition
AppendIf(cond, events, event) == IF cond THEN Append(events, event) ELSE events

_simulate_tracking(ds_order, utcnow, arrival_days, delivery_days) ==
    LET sent == ds_order.sent_to_supplier_at
        confirmed == ds_order.confirmed_by_supplier_at
        shipped == ds_order.shipped_by_supplier_at
        delivered == ds_order.delivered_by_supplier_at
        e1 == AppendIf(sent # NoTime, <<>>, Event(sent, "Pedido recebido"))
        e2 == AppendIf(confirmed # NoTime, e1, Event(confirmed, "Pedido confirmado"))
        e3 == AppendIf(shipped # NoTime, e2, Event(shipped, "Objeto postado"))
        e4 == AppendIf(shipped # NoTime /\ shipped + 1 <= utcnow, e3,
                       Event(shipped + 1, "Objeto em transito"))
        e5 == AppendIf(shipped # NoTime /\ shipped + arrival_days <= utcnow, e4,
                       Event(shipped + arrival_days, "Objeto chegou ao destino"))
        e6 == AppendIf(delivered # NoTime, e5, Event(delivered, "Objeto entregue"))
    IN [events |-> e6,
        estimated_delivery |-> IF shipped # NoTime /\ delivered = NoTime
                               THEN shipped + delivery_days ELSE NoTime,
        last_update |-> utcnow]

\* _track_dropshipping_order for a sub-order that has a tracking number and
\* whose supplier has no tracking API: tracking_info.update(simulated_tracking).
\* random.randint(min_days, max_days) is drawn only for a sub-order that is
\* shipped and not delivered, and raises on an empty range; the handler of
\* _track_dropshipping_order then answers with status 'error'.
track_simulated(ds_order_id, utcnow, arrival_days, delivery_days) ==
    /\ ds_order_id \in 1..Len(ds_orders)
    /\ LET ds_order == ds_orders[ds_order_id]
           supplier == suppliers[ds_order.supplier_id]
           draws == ds_order.shipped_by_supplier_at # NoTime
                    /\ ds_order.delivered_by_supplier_at = NoTime
           range == supplier.shipping_time_min_days..supplier.shipping_time_max_days
       IN /\ ds_order.tracking_number # NoTracking
          /\ ~supplier.tracking_api_endpoint
          /\ \A at \in {ds_order.sent_to_supplier_at, ds_order.confirmed_by_supplier_at,
                        ds_order.shipped_by_supplier_at,
                        ds_order.delivered_by_supplier_at} : at <= utcnow
          /\ IF draws /\ range = {}
             THEN /\ delivery_days = 0
                  /\ result' = [op |-> "_simulate_tracking", raised |-> FALSE,
                                dropshipping_order_id |-> ds_order_id,
                                status |-> "error"]
             ELSE /\ IF draws THEN delivery_days \in range ELSE delivery_days = 0
                  /\ result' = [op |-> "_simulate_tracking", raised |-> FALSE,
                                dropshipping_order_id |-> ds_order_id,
                                status |-> ds_order.supplier_status]
                                @@ _simulate_tracking(ds_order, utcnow, arrival_days,
                                                      delivery_days)
    /\ UNCHANGED <<orders, suppliers, ds_orders, connectors, active_connectors,
                   supplier_products, products, customers, clock>>

StoredTimes == {NoTime} \cup 0..MaxStoredDay

\* a <= b for timestamps that are both set
InOrder(a, b) == a = NoTime \/ b = NoTime \/ a <= b

\* one sub-order with a tracking number and stored timestamps with
\* sent <= confirmed <= shipped <= delivered
InitEvents ==
    /\ orders = [o \in OrderIds |-> NewOrder(<<Item(TRUE, 1, 50, 1)>>)]
    /\ \E kind \in {GoodSupplier, BadSupplier} :
        suppliers = [s \in SupplierIds |-> IF s = 1 THEN kind ELSE GoodSupplier]
    /\ \E sent, confirmed, shipped, delivered \in StoredTimes :
        /\ InOrder(sent, confirmed) /\ InOrder(sent, shipped) /\ InOrder(sent, delivered)
        /\ InOrder(confirmed, shipped) /\ InOrder(confirmed, delivered)
        /\ InOrder(shipped, delivered)
        /\ ds_orders = <<[ExistingRow(1, 1, 1, "pending")
                            EXCEPT !.tracking_number = CorreiosNumber]
                         @@ [sent_to_supplier_at |-> sent,
                             confirmed_by_supplier_at |-> confirmed,
                             shipped_by_supplier_at |-> shipped,
                             delivered_by_supplier_at |-> delivered]>>
    /\ connectors = <<>>
    /\ active_connectors = <<>>
    /\ supplier_products = <<>>
    /\ products = <<>>
    /\ customers = <<>>
    /\ clock = 0
    /\ result = NoResult

NextEvents ==
    \E utcnow \in 0..MaxDay, arrival_days \in 2..3, delivery_days \in 0..MaxDay :
        track_simulated(1, utcnow, arrival_days, delivery_days)

SpecEvents == InitEvents /\ [][NextEvents]_vars

\* C24: when a sub-order has no live tracking backend, the synthesized event
\* list is monotonically increasing in date: for any stored timestamps with
\* sent <= confirmed <= shipped <= delivered, each event in the list returned
\* by _simulate_tracking has a date not earlier than the event before it.
C24_EventsMonotonic ==
    (result.op = "_simulate_tracking" /\ "events" \in DOMAIN result)
    => \A i \in 1..(Len(result.events) - 1) :
            result.events[i].date <= result.events[i + 1].date


(***************************************************************************)
(* C25: consistency of the registry                                        *)
(***************************************************************************)
\* the two counts at the head of health_check's answer
HealthCounts ==
    [total_connectors |-> Cardinality(DOMAIN connectors),
     active_connectors |-> Len(active_connectors)]

\* C25: after any sequence of register and unregister operations (including
\* registering the same name twice before unregistering it once), every name
\* in the active list is a key of the stored-connector map and no name
\* appears in the active list more than once, so the active count never
\* exceeds the total count reported by health_check.
C25_RegistryConsistent ==
    /\ \A i \in 1..Len(active_connectors) : active_connectors[i] \in DOMAIN connectors
    /\ \A i, j \in 1..Len(active_connectors) :
            active_connectors[i] = active_connectors[j] => i = j
    /\ HealthCounts.active_connectors <= HealthCounts.total_connectors


(***************************************************************************)
(* C26: the parent order's status under track_order                        *)
(***************************************************************************)
\* how far a parent order has come; 'paid' and 'processing' are not ordered
\* between each other
ParentRank(status) ==
    CASE status = "pending" -> 1
      [] status = "confirmed" -> 2
      [] status \in {"paid", "processing"} -> 3
      [] status = "shipped" -> 4
      [] status = "delivered" -> 5
      [] OTHER -> 0

\* C26: track_order never moves the parent order's status backwards: for an
\* order that route_order has set to 'processing' (or that has been marked
\* paid, shipped or delivered), a later track_order never writes an earlier
\* status such as 'pending' or 'confirmed' to the parent order.
C26_ParentNeverRegresses ==
    [][(result'.op = "track_order" /\ ~result'.raised)
       => \A id \in DOMAIN orders :
            orders[id].status \in {"processing", "paid", "shipped", "delivered"}
                => ParentRank(orders'[id].status) >= ParentRank(orders[id].status)]_vars


(***************************************************************************)
(* C27: the dry run and the routing                                        *)
(***************************************************************************)
\* C27: the dry run agrees with the real routing: for every order with at
\* least one dropshipping supplier, the recommended_strategy returned by
\* get_routing_options is the strategy that route_order selects for the same
\* order. Stated for a route_order call that follows the dry run of its order.
C27_DryRunAgreesWithRouting ==
    [][(/\ OptionsReturned
        /\ result'.op = "route_order"
        /\ ~result'.raised
        /\ result'.order_id = result.order_id)
       => result'.routing_strategy = result.recommended_strategy]_vars


(***************************************************************************)
(* C28: find_best_supplier_for_product answers when there are products     *)
(***************************************************************************)
\* C28: find_best_supplier_for_product returns an option whenever
\* search_products_all returns at least one product: for every priority
\* (price, stock, composite) and every product set, including products whose
\* stock or score is 0, the result is None only if no active connector
\* returned any product.
C28_NoneOnlyWithoutProducts ==
    (result.op = "find_best_supplier_for_product" /\ ~result.raised)
    => (~result.best_option.found => Len(result.encountered) = 0)


(***************************************************************************)
(* Routing over suppliers whose dispatch may raise, any number of times.    *)
(***************************************************************************)
InitRollback == InitWith(TrackItems, {GoodSupplier, BadSupplier})

NextRollback == \E order_id \in RequestIds : route_order(order_id)

SpecRollback == InitRollback /\ [][NextRollback]_vars

\* C29: route_order is all-or-nothing on error: whenever route_order raises
\* (order missing, or a failure while analysing or dispatching any supplier
\* group), the session is rolled back, so no sub-order of that call is
\* persisted and the parent order's status and dropshipping flag are what
\* they were before the call. The calls that raise here are those for a
\* missing order and those in which the dispatch of a group raises, with the
\* rows of the groups before it already added to the session; the analysis
\* writes nothing.
C29_RaiseLeavesNothing ==
    [][(result'.op = "route_order" /\ result'.raised)
       => /\ ds_orders' = ds_orders
          /\ \A id \in DOMAIN orders :
                /\ orders'[id].status = orders[id].status
                /\ orders'[id].is_dropshipping_order = orders[id].is_dropshipping_order]_vars

\* a route_order that raised at its last supplier group, after the groups
\* before it were dispatched: nothing of the call is there
C29_Witness ==
    /\ result.op = "route_order"
    /\ result.raised
    /\ result.error = "dispatch"
    /\ Len(result.suppliers_involved) = 3
    /\ result.dispatch_raised = result.suppliers_involved[3]
    /\ ~SimulateRaises(result.suppliers_involved[1])
    /\ ds_orders = <<>>
    /\ orders[result.order_id].status = "pending"
    /\ ~orders[result.order_id].is_dropshipping_order


(***************************************************************************)
(* Customer registration and phone verification:                           *)
(* register_customer, verify_phone (src/api/customer_views.py) and          *)
(* Customer.phone_otp_is_valid (src/api/models.py).                         *)
(* A string is the sequence of its characters. The clock counts ticks of    *)
(* MinutesPerTick minutes; every request is served at a time not before     *)
(* the request served last. The fields of the e-mail verification are kept  *)
(* as far as register_customer writes them; e-mail addresses are in lower   *)
(* case already.                                                           *)
(***************************************************************************)
MaxOtpAttempts == 5
OtpMinutes == 10
MinutesPerTick == 5
MaxClock == 4           \* requests are served at ticks 0..MaxClock

OtpLifetime == OtpMinutes \div MinutesPerTick

NoText == <<>>          \* the empty string

\* str.strip() for blanks
Strip(s) ==
    LET RECURSIVE LStrip(_)
        LStrip(x) == IF x # <<>> /\ Head(x) = " " THEN LStrip(Tail(x)) ELSE x
        RECURSIVE RStrip(_)
        RStrip(x) == IF x # <<>> /\ x[Len(x)] = " "
                     THEN RStrip(SubSeq(x, 1, Len(x) - 1)) ELSE x
    IN RStrip(LStrip(s))

\* codes that _gen_otp returns: six digits
Otps == {<<"1", "2", "3", "4", "5", "6">>, <<"0", "0", "0", "0", "0", "7">>}

\* what a request gives as "otp": nothing, blanks, a code, a code after a blank
OtpInputs ==
    {NoText, <<" ">>} \cup Otps \cup {<<" ">> \o <<"1", "2", "3", "4", "5", "6">>}

Names == {NoText, <<"n">>}
Emails == {NoText, <<"a">>}
Phones == {NoText, <<"+", "1">>, <<"+", "2">>}

EmailToken == <<"t">>

\* Customer.objects.get_or_create(...) creates the row with the defaults
NewCustomer(name, email, phone) ==
    [name |-> name, email |-> email, phone |-> phone,
     is_email_verified |-> FALSE, is_phone_verified |-> FALSE,
     email_verification_token |-> NoText,
     phone_otp_code |-> NoText, phone_otp_expires_at |-> NoTime,
     phone_otp_attempts |-> 0]

phone_otp_is_valid(customer, code, now) ==
    /\ code # NoText
    /\ customer.phone_otp_code # NoText
    /\ Strip(code) = Strip(customer.phone_otp_code)
    /\ customer.phone_otp_expires_at # NoTime
    /\ now <= customer.phone_otp_expires_at

\* the limit that is off by one: six failed attempts
LimitAboveFive(customer) == customer.phone_otp_attempts > MaxOtpAttempts

\* "Limite simples"
TooManyAttempts(customer) == customer.phone_otp_attempts >= MaxOtpAttempts

register_customer(raw_name, raw_email, raw_phone, otp, now) ==
    /\ now \in clock..MaxClock
    /\ clock' = now
    /\ LET name == Strip(raw_name)
           email == Strip(raw_email)
           phone == Strip(raw_phone)
           found == {i \in 1..Len(customers) : customers[i].email = email}
           created == found = {}
           id == IF created THEN Len(customers) + 1 ELSE CHOOSE i \in found : TRUE
           row == IF created THEN NewCustomer(name, email, phone)
                  ELSE [customers[id] EXCEPT
                            !.name = name,
                            !.phone = IF phone # NoText THEN phone ELSE @]
           saved == [row EXCEPT
                        !.email_verification_token = EmailToken,
                        !.phone_otp_code = IF phone # NoText THEN otp ELSE NoText,
                        !.phone_otp_expires_at =
                            IF phone # NoText THEN now + OtpLifetime ELSE NoTime,
                        !.phone_otp_attempts = 0]
       IN IF name = NoText \/ email = NoText
          THEN /\ result' = [op |-> "register_customer", status_code |-> 400]
               /\ UNCHANGED customers
          ELSE /\ customers' = IF created THEN Append(customers, saved)
                               ELSE [customers EXCEPT ![id] = saved]
               /\ result' = [op |-> "register_customer",
                             status_code |-> IF created THEN 201 ELSE 200,
                             customer_id |-> id,
                             phone_otp_sent |-> saved.phone_otp_code # NoText]
    /\ UNCHANGED <<orders, suppliers, ds_orders, connectors, active_connectors,
                   supplier_products, products>>

verify_phone(customer_id, raw_otp, now) ==
    /\ now \in clock..MaxClock
    /\ clock' = now
    /\ LET otp == Strip(raw_otp)
       IN IF customer_id \notin 1..Len(customers)
          THEN /\ result' = [op |-> "verify_phone", status_code |-> 404,
                             customer_id |-> customer_id, otp |-> otp]
               /\ UNCHANGED customers
          ELSE LET customer == customers[customer_id]
               IN IF TooManyAttempts(customer)
                  THEN /\ result' = [op |-> "verify_phone", status_code |-> 429,
                                     customer_id |-> customer_id, otp |-> otp]
                       /\ UNCHANGED customers
                  ELSE IF ~phone_otp_is_valid(customer, otp, now)
                  THEN /\ customers' = [customers EXCEPT
                                            ![customer_id].phone_otp_attempts = @ + 1]
                       /\ result' = [op |-> "verify_phone", status_code |-> 400,
                                     customer_id |-> customer_id, otp |-> otp]
                  ELSE /\ customers' = [customers EXCEPT
                                            ![customer_id].is_phone_verified = TRUE,
                                            ![customer_id].phone_otp_code = NoText,
                                            ![customer_id].phone_otp_expires_at = NoTime,
                                            ![customer_id].phone_otp_attempts = 0]
                       /\ result' = [op |-> "verify_phone", status_code |-> 200,
                                     customer_id |-> customer_id, otp |-> otp]
    /\ UNCHANGED <<orders, suppliers, ds_orders, connectors, active_connectors,
                   supplier_products, products>>

NextPhone ==
    \/ \E name \in Names, email \in Emails, phone \in Phones, otp \in Otps,
          now \in 0..MaxClock :
            register_customer(name, email, phone, otp, now)
    \/ \E customer_id \in 1..(Len(customers) + 1), otp \in OtpInputs, now \in 0..MaxClock :
            verify_phone(customer_id, otp, now)

SpecPhone == InitRegistry /\ [][NextPhone]_vars

\* the step is a verify_phone call for customer i
VerifyStep(i) == result'.op = "verify_phone" /\ result'.customer_id = i

\* C30: a customer's phone becomes verified only by a verify_phone call made
\* while fewer than 5 failed attempts are recorded and with the current
\* unexpired OTP; once 5 failed attempts are recorded every verify_phone call
\* is rejected, even with the correct OTP, until register_customer issues a
\* new OTP and resets the counter; a used OTP is cleared and cannot verify
\* again.
C30_PhoneLockout ==
    [][\A i \in 1..Len(customers) :
        LET before == customers[i]
            after == customers'[i]
        IN /\ (~before.is_phone_verified /\ after.is_phone_verified)
                => /\ VerifyStep(i)
                   /\ result'.status_code = 200
           /\ (VerifyStep(i) /\ result'.status_code = 200)
                => /\ before.phone_otp_attempts < 5
                   /\ before.phone_otp_code # NoText
                   /\ result'.otp = before.phone_otp_code
                   /\ before.phone_otp_expires_at # NoTime
                   /\ clock' <= before.phone_otp_expires_at
                   /\ after.is_phone_verified
                   /\ after.phone_otp_code = NoText
                   /\ after.phone_otp_expires_at = NoTime
           /\ (VerifyStep(i) /\ before.phone_otp_code = NoText)
                => result'.status_code # 200
           /\ (VerifyStep(i) /\ before.phone_otp_attempts >= 5)
                => /\ result'.status_code = 429
                   /\ after = before
           /\ (before.phone_otp_attempts >= 5 /\ after # before)
                => /\ result'.op = "register_customer"
                   /\ result'.customer_id = i
                   /\ after.phone_otp_attempts = 0
                   /\ after.phone_otp_code \in Otps \cup {NoText}]_vars

\* a verify_phone call with the current unexpired OTP that was rejected
\* because 5 failed attempts are recorded
C30_Witness ==
    /\ result.op = "verify_phone"
    /\ result.status_code = 429
    /\ LET customer == customers[result.customer_id]
       IN /\ customer.phone_otp_attempts = 5
          /\ result.otp = customer.phone_otp_code
          /\ clock <= customer.phone_otp_expires_at
          /\ ~customer.is_phone_verified

====
